---- MODULE Spec2Model ----
(***************************************************************************)
(* Electric-Product-Data-Analysis: the sample-data generator, the cleaner, *)
(* the star-schema builder (src/models/star_schema_model.py), the          *)
(* dashboard's loading, joining and filter callback, and the deployment    *)
(* script.                                                                 *)
(*                                                                         *)
(* A table (a pandas DataFrame) is [cols |-> <<column names>>,             *)
(* rows |-> <<records over those columns>>].  A calendar date is           *)
(* <<year, month, day>>.  A text made of decimal digits is a sequence of   *)
(* digits 0..9.  A CSV file is a sequence of lines, a line a sequence of   *)
(* fields, a field <<>> (empty text) or <<v>> (the text of v).             *)
(***************************************************************************)
EXTENDS Integers, Sequences, FiniteSets, TLC

VARIABLES
    processed,    \* src/data/processed_data: the five cleaned tables on disk
    star_schema,  \* src/models/star_schema: the six artifacts on disk
    pc,           \* position of the star-schema builder's main()
    loc,          \* local variables of the star-schema builder's main()
    run,          \* number of invocations of the builder's main() so far
    dash,         \* tables held by the dashboard after load_star_schema_data
    sample_data,  \* sample_data: the five raw tables written by the generator
    gen,          \* local variables of the generator's functions
    deploy        \* prepare_deployment.py: its position and the deployment directory

vars == <<processed, star_schema, pc, loc, run, dash, sample_data, gen, deploy>>

----------------------------------------------------------------------------
(* Bounds of the model *)

\* rows of an input dimension table
MaxRows == 2
\* rows of an input sales table
MaxSales == 1
\* invocations of the builder's main()
MaxRuns == 2
\* products, customers, stores and transactions the generator makes (the
\* program's NUM_PRODUCTS, NUM_CUSTOMERS, NUM_STORES, NUM_TRANSACTIONS scaled down)
NumProducts == 2
NumCustomers == 1
NumStores == 1
NumTransactions == 2

----------------------------------------------------------------------------
(* Sequences *)

ToSet(s) == {s[i] : i \in DOMAIN s}

SeqsUpTo(S, n) == UNION {[1..k -> S] : k \in 0..n}

Max(S) == CHOOSE x \in S : \A y \in S : y <= x

\* The missing value (NaN) of a numeric column.
NaN == -1

\* A text that is no number (such as 'abc') in a cell of a numeric column.
NotANumber == -2

----------------------------------------------------------------------------
(* Calendar: datetime, timedelta, pandas.date_range *)

IsLeap(y) == (y % 4 = 0 /\ y % 100 # 0) \/ y % 400 = 0

DaysInMonth(y, m) ==
    IF m = 2 THEN (IF IsLeap(y) THEN 29 ELSE 28)
    ELSE IF m \in {4, 6, 9, 11} THEN 30 ELSE 31

DaysInYear(y) == IF IsLeap(y) THEN 366 ELSE 365

RECURSIVE DaysBeforeMonth(_, _)
DaysBeforeMonth(y, m) ==
    IF m = 1 THEN 0 ELSE DaysBeforeMonth(y, m - 1) + DaysInMonth(y, m - 1)

DaysBeforeYear(y) ==
    (y - 1) * 365 + ((y - 1) \div 4) - ((y - 1) \div 100) + ((y - 1) \div 400)

\* datetime.toordinal: 0001-01-01 is day 1
ToOrdinal(d) == DaysBeforeYear(d[1]) + DaysBeforeMonth(d[1], d[2]) + d[3]

IsDate(d) ==
    /\ d[1] \in 1..9999
    /\ d[2] \in 1..12
    /\ d[3] \in 1..DaysInMonth(d[1], d[2])

\* day n (1-based) of year y
DayOfYearToDate(y, n) ==
    LET m == CHOOSE k \in 1..12 :
                 DaysBeforeMonth(y, k) < n /\ n <= DaysBeforeMonth(y, k) + DaysInMonth(y, k)
    IN  <<y, m, n - DaysBeforeMonth(y, m)>>

RECURSIVE FromYearDay(_, _)
FromYearDay(y, n) ==
    IF n > DaysInYear(y) THEN FromYearDay(y + 1, n - DaysInYear(y))
    ELSE IF n < 1 THEN FromYearDay(y - 1, n + DaysInYear(y - 1))
    ELSE DayOfYearToDate(y, n)

\* date + timedelta(days=k)
AddDays(d, k) == FromYearDay(d[1], DaysBeforeMonth(d[1], d[2]) + d[3] + k)

\* date comparison (datetime.__le__)
DateLE(a, b) == ToOrdinal(a) <= ToOrdinal(b)

\* pd.date_range(start, end, freq='D'): every day from start to end inclusive
date_range(start, end) ==
    [i \in 1..(IF DateLE(start, end) THEN ToOrdinal(end) - ToOrdinal(start) + 1 ELSE 0)
        |-> AddDays(start, i - 1)]

\* Timestamp.dayofweek: Monday is 0
DayOfWeek(d) == (ToOrdinal(d) + 6) % 7

DayNames == <<"Monday", "Tuesday", "Wednesday", "Thursday", "Friday", "Saturday", "Sunday">>

MonthNames == <<"January", "February", "March", "April", "May", "June", "July",
                "August", "September", "October", "November", "December">>

----------------------------------------------------------------------------
(* Text of numbers: str(int), str.zfill, strftime, astype(int) *)

RECURSIVE Pow10(_)
Pow10(n) == IF n = 0 THEN 1 ELSE 10 * Pow10(n - 1)

RECURSIVE NumDigits(_)
NumDigits(n) == IF n < 10 THEN 1 ELSE 1 + NumDigits(n \div 10)

\* the w low decimal digits of n, most significant first
Digits(n, w) == [i \in 1..w |-> (n \div Pow10(w - i)) % 10]

\* str(n) of a non-negative integer
IntToStr(n) == Digits(n, NumDigits(n))

\* str.zfill(w)
zfill(s, w) == IF Len(s) >= w THEN s ELSE [i \in 1..(w - Len(s)) |-> 0] \o s

\* strftime: %Y and %m, %d are zero-padded to 4 and 2 digits, longer values kept
strftime_Ymd(d) == zfill(IntToStr(d[1]), 4) \o zfill(IntToStr(d[2]), 2) \o zfill(IntToStr(d[3]), 2)

\* strftime('%Y-%m')
strftime_Ym(d) == zfill(IntToStr(d[1]), 4) \o <<"-">> \o zfill(IntToStr(d[2]), 2)

\* int(text) of a text of decimal digits
RECURSIVE StrToInt(_)
StrToInt(s) ==
    IF s = <<>> THEN 0 ELSE 10 * StrToInt(SubSeq(s, 1, Len(s) - 1)) + s[Len(s)]

----------------------------------------------------------------------------
(* Tables: the pandas operations the pipeline uses *)

NoTable == [cols |-> <<>>, rows |-> <<>>]

NRows(t) == Len(t.rows)

\* df[name]
Column(t, name) == [i \in 1..NRows(t) |-> t.rows[i][name]]

\* df[[c1, c2, ...]].copy()
SelectColumns(t, cols) ==
    [cols |-> cols,
     rows |-> [i \in 1..NRows(t) |-> [c \in ToSet(cols) |-> t.rows[i][c]]]]

\* df[name] = values: replaces the column, or appends it as the last column
AssignColumn(t, name, values) ==
    [cols |-> IF name \in ToSet(t.cols) THEN t.cols ELSE Append(t.cols, name),
     rows |-> [i \in 1..NRows(t) |->
                 [c \in ToSet(t.cols) \cup {name} |->
                     IF c = name THEN values[i] ELSE t.rows[i][c]]]]

\* cols = [key] + [col for col in df.columns if col != key]; df = df[cols]
KeyFirst(t, key) ==
    SelectColumns(t, <<key>> \o SelectSeq(t.cols, LAMBDA c : c # key))

\* range(1, n + 1)
range1(n) == [i \in 1..n |-> i]

\* a dict that keeps the first pair of a key
dict_zip_first(ks, vs) ==
    [k \in ToSet(ks) |-> vs[CHOOSE i \in DOMAIN ks : ks[i] = k /\ \A j \in 1..(i - 1) : ks[j] # k]]

\* dict(zip(keys, values)): a later pair replaces an earlier one with the same key
dict_zip(ks, vs) ==
    [k \in ToSet(ks) |-> vs[Max({i \in DOMAIN ks : ks[i] = k})]]

\* Series.map(dict): a value that is no key of the dict maps to NaN
map_dict(s, d) ==
    [i \in DOMAIN s |-> IF s[i] \in DOMAIN d THEN d[s[i]] ELSE NaN]

----------------------------------------------------------------------------
(* CSV files: DataFrame.to_csv(index=False) and pd.read_csv *)

\* The missing timestamp (NaT) and the missing text of a column.
NaT == <<>>

NaText == "NaN"

\* columns whose cells are integers; prices and amounts are counted in
\* hundredths, as is the discount (a fraction with two decimals) and the profit
\* margin (a percentage)
IntCols == {"date_id", "day", "month", "quarter", "year", "day_of_week", "date_key",
            "product_key", "customer_key", "store_key", "sales_key", "performance_key",
            "transaction_year", "transaction_month", "transaction_day",
            "price", "quantity", "unit_price", "discount", "final_price", "total_amount",
            "manufacturing_cost", "warranty_years", "weight_kg", "stock_quantity",
            "lifetime_value", "size_sqm", "energy_consumption_kwh", "failure_rate",
            "customer_satisfaction", "return_rate", "warranty_claims", "profit_margin"}

\* columns whose cells are dates
DateCols == {"date", "transaction_date"}

\* columns whose cells are booleans (never missing)
BoolCols == {"is_weekend"}

Missing(c) == IF c \in IntCols THEN NaN ELSE IF c \in DateCols THEN NaT ELSE NaText

IsNull(c, v) == c \notin BoolCols /\ v = Missing(c)

\* the text to_csv writes for a cell: nothing for a missing value
FieldText(c, v) == IF IsNull(c, v) THEN <<>> ELSE <<v>>

\* the cell read_csv makes of a field: a missing value for an empty field
FieldValue(c, f) == IF f = <<>> THEN Missing(c) ELSE f[1]

\* df.to_csv(path): the index is written as a first column without a name, which
\* read_csv names "Unnamed: 0"
to_csv_index(t) ==
    <<<<<<"Unnamed: 0">>>> \o [j \in 1..Len(t.cols) |-> <<t.cols[j]>>]>> \o
    [i \in 1..NRows(t) |->
        <<<<i - 1>>>> \o
        [j \in 1..Len(t.cols) |-> FieldText(t.cols[j], t.rows[i][t.cols[j]])]]

\* df.to_csv(path, index=False): the header line, then one line per row
to_csv(t) ==
    <<[j \in 1..Len(t.cols) |-> <<t.cols[j]>>]>> \o
    [i \in 1..NRows(t) |->
        [j \in 1..Len(t.cols) |-> FieldText(t.cols[j], t.rows[i][t.cols[j]])]]

\* a line without any character (skip_blank_lines=True drops it)
IsBlankLine(line) == Len(line) = 0 \/ (Len(line) = 1 /\ line[1] = <<>>)

\* pd.read_csv(path): the first line names the columns, the others are rows
read_csv(lines) ==
    LET header == [j \in 1..Len(lines[1]) |-> lines[1][j][1]]
        data == SelectSeq(Tail(lines), LAMBDA l : ~IsBlankLine(l))
        field == [c \in ToSet(header) |-> CHOOSE k \in 1..Len(header) : header[k] = c]
    IN  [cols |-> header,
         rows |-> [i \in 1..Len(data) |->
                     [c \in ToSet(header) |-> FieldValue(c, data[i][field[c]])]]]

NoFile == [exists |-> FALSE, lines |-> <<>>]

File(lines) == [exists |-> TRUE, lines |-> lines]

----------------------------------------------------------------------------
(* star_schema_model.py: the dimensions *)

start_date == <<2022, 1, 1>>

end_date == <<2023, 12, 31>>

DateDimCols == <<"date_id", "date", "day", "month", "quarter", "year", "day_of_week",
                 "day_name", "month_name", "is_weekend", "date_key">>

\* date_dim['date'].dt.strftime('%Y%m%d').astype(int)
date_key_of(d) == StrToInt(strftime_Ymd(d))

\* the date dimension of a range that leaves out its last day
create_date_dimension_open ==
    LET dr == date_range(start_date, AddDays(end_date, -1))
    IN  [cols |-> DateDimCols,
         rows |-> [i \in 1..Len(dr) |->
                    [date_id     |-> i,
                     date        |-> dr[i],
                     day         |-> dr[i][3],
                     month       |-> dr[i][2],
                     quarter     |-> ((dr[i][2] - 1) \div 3) + 1,
                     year        |-> dr[i][1],
                     day_of_week |-> DayOfWeek(dr[i]),
                     day_name    |-> DayNames[DayOfWeek(dr[i]) + 1],
                     month_name  |-> MonthNames[dr[i][2]],
                     is_weekend  |-> DayOfWeek(dr[i]) \in {5, 6},
                     date_key    |-> date_key_of(dr[i])]]]

create_date_dimension ==
    LET dr == date_range(start_date, end_date)
        frame ==
          [cols |-> SubSeq(DateDimCols, 1, 10),
           rows |-> [i \in 1..Len(dr) |->
                      [date_id     |-> range1(Len(dr))[i],
                       date        |-> dr[i],
                       day         |-> dr[i][3],
                       month       |-> dr[i][2],
                       quarter     |-> ((dr[i][2] - 1) \div 3) + 1,
                       year        |-> dr[i][1],
                       day_of_week |-> DayOfWeek(dr[i]),
                       day_name    |-> DayNames[DayOfWeek(dr[i]) + 1],
                       month_name  |-> MonthNames[dr[i][2]],
                       is_weekend  |-> DayOfWeek(dr[i]) \in {5, 6}]]]
    IN  AssignColumn(frame, "date_key",
                     [i \in 1..NRows(frame) |-> date_key_of(frame.rows[i].date)])

ProductDimCols == <<"product_id", "product_name", "category", "subcategory",
                    "energy_rating", "price", "manufacturing_cost", "warranty_years",
                    "weight_kg", "profit_margin", "launch_date">>

CustomerDimCols == <<"customer_id", "customer_name", "country", "segment",
                     "acquisition_date", "lifetime_value", "acquisition_year",
                     "acquisition_month">>

StoreDimCols == <<"store_id", "store_name", "country", "store_type",
                  "opening_date", "size_sqm", "opening_year">>

\* select the columns, add the surrogate key range(1, len + 1), put the key first
add_surrogate_key(df, cols, key) ==
    LET dim == SelectColumns(df, cols)
    IN  KeyFirst(AssignColumn(dim, key, range1(NRows(dim))), key)

\* the dimension with its keys numbered on from the rows of the dim_product
\* artifact of the last build
create_product_dimension_incremental(products_df) ==
    LET dim == add_surrogate_key(products_df, ProductDimCols, "product_key")
        base == IF star_schema.dim_product.exists
                THEN Len(star_schema.dim_product.lines) - 1 ELSE 0
    IN  AssignColumn(dim, "product_key", [i \in 1..NRows(dim) |-> base + i])

\* the dimension with keys that go on after the largest product_key of the
\* dim_product artifact on disk, so that no key of an earlier build is used again
create_product_dimension_fresh_keys(products_df) ==
    LET dim == add_surrogate_key(products_df, ProductDimCols, "product_key")
        old == IF star_schema.dim_product.exists
               THEN ToSet(Column(read_csv(star_schema.dim_product.lines), "product_key"))
               ELSE {}
    IN  AssignColumn(dim, "product_key", [i \in 1..NRows(dim) |-> Max(old \cup {0}) + i])

\* the dimension with drop_duplicates(subset=['product_id']) before the key
create_product_dimension_dedup(products_df) ==
    LET ids == Column(products_df, "product_id")
        first == {i \in DOMAIN ids : \A j \in 1..(i - 1) : ids[j] # ids[i]}
        kept == [cols |-> products_df.cols,
                 rows |-> [k \in 1..Cardinality(first) |->
                             products_df.rows[CHOOSE i \in first :
                                 Cardinality({j \in first : j <= i}) = k]]]
    IN  add_surrogate_key(kept, ProductDimCols, "product_key")

create_product_dimension(products_df) ==
    add_surrogate_key(products_df, ProductDimCols, "product_key")

create_customer_dimension(customers_df) ==
    add_surrogate_key(customers_df, CustomerDimCols, "customer_key")

create_store_dimension(stores_df) ==
    add_surrogate_key(stores_df, StoreDimCols, "store_key")

----------------------------------------------------------------------------
(* star_schema_model.py: the facts *)

\* a selection that keeps the store's natural id in place of its surrogate key
SalesFactCols_store_id ==
    <<"transaction_id", "date_key", "product_key", "customer_key", "store_id",
      "quantity", "unit_price", "discount", "final_price", "total_amount",
      "payment_method">>

SalesFactCols == <<"transaction_id", "date_key", "product_key", "customer_key",
                   "store_key", "quantity", "unit_price", "discount", "final_price",
                   "total_amount", "payment_method">>

PerformanceFactCols == <<"date_key", "product_key", "energy_consumption_kwh",
                         "failure_rate", "customer_satisfaction", "return_rate",
                         "warranty_claims">>

\* pd.to_datetime of a cell read from the CSV: the date of a date text, NaT of a
\* missing cell
to_datetime(v) == IF v # NaT /\ IsDate(v) THEN v ELSE NaT

\* .dt.strftime('%Y%m%d').astype(int) raises ValueError on a missing date (the
\* text of NaT is NaN, which has no integer value)
create_sales_fact_raises(sales_df) ==
    \E i \in 1..NRows(sales_df) : to_datetime(sales_df.rows[i].transaction_date) = NaT

\* the keys resolved to the 0-based position of the dimension row
resolve_key_position(fact, id, dim, key) ==
    map_dict(Column(fact, id),
             dict_zip(Column(dim, id), [i \in 1..NRows(dim) |-> i - 1]))

\* the surrogate key of each natural id, through dict(zip(ids, keys)) and .map
resolve_key(fact, id, dim, key) ==
    map_dict(Column(fact, id), dict_zip(Column(dim, id), Column(dim, key)))

\* the date key of a date out of the date dimension clamped to its nearest day
sales_date_key_clamped(d) ==
    IF ~DateLE(start_date, d) THEN date_key_of(start_date)
    ELSE IF ~DateLE(d, end_date) THEN date_key_of(end_date)
    ELSE date_key_of(d)

\* sales_fact['transaction_date'].dt.strftime('%Y%m%d').astype(int)
sales_date_key(d) == date_key_of(d)

\* the sales rows with the date_key and the three surrogate keys resolved
keyed_sales(sales_df, product_dim, customer_dim, store_dim) ==
    LET dated == AssignColumn(sales_df, "transaction_date",
                     [i \in 1..NRows(sales_df) |->
                         to_datetime(sales_df.rows[i].transaction_date)])
        keyed0 == AssignColumn(dated, "date_key",
                     [i \in 1..NRows(dated) |-> sales_date_key(dated.rows[i].transaction_date)])
        keyed1 == AssignColumn(keyed0, "product_key",
                     resolve_key(keyed0, "product_id", product_dim, "product_key"))
        keyed2 == AssignColumn(keyed1, "customer_key",
                     resolve_key(keyed1, "customer_id", customer_dim, "customer_key"))
    IN  AssignColumn(keyed2, "store_key",
                     resolve_key(keyed2, "store_id", store_dim, "store_key"))

\* the fact table of an inner join: rows with an unmatched key are dropped
create_sales_fact_inner(sales_df, product_dim, customer_dim, store_dim, date_dim) ==
    LET keyed == keyed_sales(sales_df, product_dim, customer_dim, store_dim)
        fact == SelectColumns(
                    [cols |-> keyed.cols,
                     rows |-> SelectSeq(keyed.rows,
                                 LAMBDA r : /\ r.product_key # NaN
                                            /\ r.customer_key # NaN
                                            /\ r.store_key # NaN)],
                    SalesFactCols)
    IN  KeyFirst(AssignColumn(fact, "sales_key", range1(NRows(fact))), "sales_key")

\* the fact table with the row labels 0..M-1 of the frame as its sales_key
create_sales_fact_index_key(sales_df, product_dim, customer_dim, store_dim, date_dim) ==
    LET fact == SelectColumns(keyed_sales(sales_df, product_dim, customer_dim, store_dim),
                              SalesFactCols)
    IN  KeyFirst(AssignColumn(fact, "sales_key", [i \in 1..NRows(fact) |-> i - 1]),
                 "sales_key")

create_sales_fact(sales_df, product_dim, customer_dim, store_dim, date_dim) ==
    LET fact == SelectColumns(keyed_sales(sales_df, product_dim, customer_dim, store_dim),
                              SalesFactCols)
    IN  KeyFirst(AssignColumn(fact, "sales_key", range1(NRows(fact))), "sales_key")

\* the date key without the month padded to two digits
performance_date_key_unpadded(year, month) ==
    StrToInt(IntToStr(year) \o IntToStr(month) \o <<0, 1>>)

\* year.astype(str) + month.astype(str).str.zfill(2) + '01', then .astype(int)
performance_date_key(year, month) ==
    StrToInt(IntToStr(year) \o zfill(IntToStr(month), 2) \o <<0, 1>>)

create_performance_fact(performance_df, product_dim, date_dim) ==
    LET keyed0 == AssignColumn(performance_df, "date_key",
                     [i \in 1..NRows(performance_df) |->
                         performance_date_key(performance_df.rows[i].year,
                                              performance_df.rows[i].month)])
        keyed1 == AssignColumn(keyed0, "product_key",
                     resolve_key(keyed0, "product_id", product_dim, "product_key"))
        fact == SelectColumns(keyed1, PerformanceFactCols)
    IN  KeyFirst(AssignColumn(fact, "performance_key", range1(NRows(fact))),
                 "performance_key")

----------------------------------------------------------------------------
(* star_schema_model.py: save_star_schema, and app.py: load_star_schema_data *)

\* the six artifacts, in the order save_star_schema writes them
Artifacts == <<"dim_date", "dim_product", "dim_customer", "dim_store",
               "fact_sales", "fact_performance">>

\* the five processed inputs, in the order load_processed_data reads them
Inputs == <<"products", "customers", "stores", "sales", "performance">>

\* a save that replaces the six files together at its first write
save_artifact_together(disk, tables, k) ==
    IF k = 1 THEN [a \in ToSet(Artifacts) |-> File(to_csv(tables[a]))] ELSE disk

\* the k-th write of save_star_schema: the file is replaced by the table's CSV
save_artifact(disk, tables, k) ==
    [disk EXCEPT ![Artifacts[k]] = File(to_csv(tables[Artifacts[k]]))]

\* load_star_schema_data: read_csv of each of the six files
load_star_schema_data(disk) ==
    [a \in ToSet(Artifacts) |-> read_csv(disk[a].lines)]

\* DataFrame.merge raises KeyError when the key is no column of one of the sides
merge_raises(left, right, on) == on \notin ToSet(left.cols) \/ on \notin ToSet(right.cols)

\* the name merge gives a column that both sides have and that is not the key:
\* suffix "_x" on the left, "_y" on the right
Suffixed(c, side) ==
    CASE c = "country" /\ side = "left" -> "country_x"
      [] c = "country" /\ side = "right" -> "country_y"
      [] c = "country_x" /\ side = "left" -> "country_x_x"
      [] c = "country_y" /\ side = "left" -> "country_y_x"
      [] OTHER -> c

\* the rows of how='inner': none for a left row without a right row
MergedRows_inner(l, lcols, right, rcols, on, lname, rname) ==
    LET hits == SelectSeq(right.rows, LAMBDA r : r[on] = l[on])
        joined(r) == [c \in {lname[k] : k \in ToSet(lcols)} \cup {rname[k] : k \in ToSet(rcols)} |->
                        IF \E k \in ToSet(lcols) : lname[k] = c
                        THEN l[CHOOSE k \in ToSet(lcols) : lname[k] = c]
                        ELSE r[CHOOSE k \in ToSet(rcols) : rname[k] = c]]
    IN  [j \in 1..Len(hits) |-> joined(hits[j])]

\* the rows merge makes of one left row: one per right row with the same key, in
\* the order of the right rows, or one with the right columns missing
MergedRows(l, lcols, right, rcols, on, lname, rname) ==
    LET hits == SelectSeq(right.rows, LAMBDA r : r[on] = l[on])
        joined(r) == [c \in {lname[k] : k \in ToSet(lcols)} \cup {rname[k] : k \in ToSet(rcols)} |->
                        IF \E k \in ToSet(lcols) : lname[k] = c
                        THEN l[CHOOSE k \in ToSet(lcols) : lname[k] = c]
                        ELSE LET k == CHOOSE k \in ToSet(rcols) : rname[k] = c
                             IN  IF r = <<>> THEN Missing(k) ELSE r[k]]
    IN  IF hits = <<>> THEN <<joined(<<>>)>> ELSE [j \in 1..Len(hits) |-> joined(hits[j])]

RECURSIVE MergeUpTo(_, _, _, _, _, _, _)
MergeUpTo(left, lcols, right, rcols, on, names, n) ==
    IF n = 0 THEN <<>>
    ELSE MergeUpTo(left, lcols, right, rcols, on, names, n - 1)
         \o MergedRows(left.rows[n], lcols, right, rcols, on, names.l, names.r)

\* left.merge(right, on=on, how='left')
merge_left(left, right, on) ==
    LET both == (ToSet(left.cols) \cap ToSet(right.cols)) \ {on}
        rcols == SelectSeq(right.cols, LAMBDA c : c # on)
        names == [l |-> [c \in ToSet(left.cols) |->
                           IF c \in both THEN Suffixed(c, "left") ELSE c],
                  r |-> [c \in ToSet(rcols) |->
                           IF c \in both THEN Suffixed(c, "right") ELSE c]]
    IN  [cols |-> [j \in 1..Len(left.cols) |-> names.l[left.cols[j]]]
                  \o [j \in 1..Len(rcols) |-> names.r[rcols[j]]],
         rows |-> MergeUpTo(left, left.cols, right, rcols, on, names, NRows(left))]

\* the joins of prepare_dashboard_data, in the order of the code: the two
\* frames and the key of each join
SalesJoins == <<<<"dim_date", "date_key">>, <<"dim_product", "product_key">>,
                <<"dim_customer", "customer_key">>, <<"dim_store", "store_key">>>>

PerformanceJoins == <<<<"dim_date", "date_key">>, <<"dim_product", "product_key">>>>

\* the fact joined to the first n dimensions of joins
RECURSIVE JoinedUpTo(_, _, _, _)
JoinedUpTo(tables, fact, joins, n) ==
    IF n = 0 THEN tables[fact]
    ELSE merge_left(JoinedUpTo(tables, fact, joins, n - 1), tables[joins[n][1]], joins[n][2])

\* one of the joins raises KeyError
joins_raise(tables, fact, joins) ==
    \E n \in 1..Len(joins) :
        /\ \A k \in 1..(n - 1) :
              ~merge_raises(JoinedUpTo(tables, fact, joins, k - 1), tables[joins[k][1]],
                            joins[k][2])
        /\ merge_raises(JoinedUpTo(tables, fact, joins, n - 1), tables[joins[n][1]],
                        joins[n][2])

prepare_dashboard_data_raises(tables) ==
    \/ joins_raise(tables, "fact_sales", SalesJoins)
    \/ joins_raise(tables, "fact_performance", PerformanceJoins)

\* prepare_dashboard_data: sales_data and performance_data, with the date column
\* converted by pd.to_datetime
prepare_dashboard_data(tables) ==
    LET sales_data == JoinedUpTo(tables, "fact_sales", SalesJoins, Len(SalesJoins))
        performance_data == JoinedUpTo(tables, "fact_performance", PerformanceJoins,
                                       Len(PerformanceJoins))
        dated(t) == AssignColumn(t, "date", [i \in 1..NRows(t) |-> to_datetime(t.rows[i].date)])
    IN  [sales_data |-> dated(sales_data), performance_data |-> dated(performance_data)]

----------------------------------------------------------------------------
(* app.py: update_dashboard, the callback of the three filters *)

\* Series.isin(values) for one cell: a missing cell is in no selection
isin(c, v, values) == ~IsNull(c, v) /\ v \in values

\* a filter of the performance rows that also asks for a selected country
filtered_performance_by_country(performance_data, selected_categories, selected_countries, selected_years) ==
    SelectSeq(performance_data.rows,
              LAMBDA r : /\ isin("category", r.category, selected_categories)
                         /\ selected_countries # {}
                         /\ isin("year", r.year, selected_years))

\* performance_data[category.isin(...) & year.isin(...)]
filtered_performance(performance_data, selected_categories, selected_countries, selected_years) ==
    SelectSeq(performance_data.rows,
              LAMBDA r : /\ isin("category", r.category, selected_categories)
                         /\ isin("year", r.year, selected_years))

\* a filter of the sales rows that leaves out the year
filtered_sales_any_year(sales_data, selected_categories, selected_countries, selected_years) ==
    SelectSeq(sales_data.rows,
              LAMBDA r : /\ isin("category", r.category, selected_categories)
                         /\ isin("country_y", r.country_y, selected_countries))

\* sales_data[category.isin(...) & country_y.isin(...) & year.isin(...)]
filtered_sales(sales_data, selected_categories, selected_countries, selected_years) ==
    SelectSeq(sales_data.rows,
              LAMBDA r : /\ isin("category", r.category, selected_categories)
                         /\ isin("country_y", r.country_y, selected_countries)
                         /\ isin("year", r.year, selected_years))

\* the cells of column c that are not missing
Present(rows, c) == SelectSeq([i \in DOMAIN rows |-> rows[i][c]], LAMBDA v : v # NaN)

RECURSIVE SumSeq(_)
SumSeq(xs) == IF xs = <<>> THEN 0 ELSE xs[1] + SumSeq(Tail(xs))

\* Series.sum(): missing cells are skipped, and the sum of none is 0
sum(rows, c) == SumSeq(Present(rows, c))

\* Series.mean(): the sum and the number of the cells that are not missing; NaN
\* is the mean of none
mean(rows, c) == [sum |-> sum(rows, c), count |-> Len(Present(rows, c))]

isna(m) == m.count = 0

\* the digits of n in groups of three (the , of a format)
RECURSIVE Grouped(_)
Grouped(digits) ==
    IF Len(digits) <= 3 THEN digits
    ELSE Grouped(SubSeq(digits, 1, Len(digits) - 3)) \o <<",">>
         \o SubSeq(digits, Len(digits) - 2, Len(digits))

\* f"${x:,.2f}" of an amount of n hundredths
format_money(n) ==
    <<"$">> \o Grouped(IntToStr(n \div 100)) \o <<".">> \o zfill(IntToStr(n % 100), 2)

\* a / b rounded to an integer, a tie to the even one
RoundHalfEven(a, b) ==
    LET q == a \div b
        r == a % b
    IN  IF 2 * r < b THEN q
        ELSE IF 2 * r > b THEN q + 1
        ELSE IF q % 2 = 0 THEN q ELSE q + 1

\* f"{x:.1f}" of x = a / b
format_1f(a, b) ==
    LET tenths == RoundHalfEven(10 * a, b)
    IN  IntToStr(tenths \div 10) \o <<".">> \o IntToStr(tenths % 10)

NotAvailable == <<"N/A">>

\* the values of column c in rows, but for the missing ones (groupby drops them)
Groups(rows, c) == {rows[i][c] : i \in DOMAIN rows} \ {Missing(c)}

\* year.astype(str) + '-' + month.astype(str) + '-01' is no date text when the
\* year is a float ('2022.0-3.0-01'), which the column is once a sales row has
\* no date dimension row; pd.to_datetime then raises, unless there is no month
update_dashboard_raises(sales_data, selected_categories, selected_countries, selected_years) ==
    LET rows == filtered_sales(sales_data, selected_categories, selected_countries,
                               selected_years)
    IN  /\ \E i \in 1..NRows(sales_data) : sales_data.rows[i].year = NaN
        /\ rows # <<>>

\* update_dashboard: the three texts, and of each figure the data it is drawn
\* from
update_dashboard(sales_data, performance_data, selected_categories, selected_countries, selected_years) ==
    LET sales == filtered_sales(sales_data, selected_categories, selected_countries,
                                selected_years)
        performance == filtered_performance(performance_data, selected_categories,
                                            selected_countries, selected_years)
        of(rows, c, v) == SelectSeq(rows, LAMBDA r : r[c] = v)
        in_month(ym) == SelectSeq(sales, LAMBDA r : r.year = ym[1] /\ r.month = ym[2])
        avg_satisfaction == mean(performance, "customer_satisfaction")
        avg_profit_margin == mean(sales, "profit_margin")
    IN  [total_sales |-> format_money(sum(sales, "total_amount")),
         avg_satisfaction |->
             IF isna(avg_satisfaction) THEN NotAvailable
             ELSE format_1f(avg_satisfaction.sum, avg_satisfaction.count) \o <<"/5.0">>,
         avg_profit_margin |->
             IF isna(avg_profit_margin) THEN NotAvailable
             ELSE format_1f(avg_profit_margin.sum, 100 * avg_profit_margin.count)
                  \o <<"%">>,
         sales_trend |->
             {[date |-> <<ym[1], ym[2], 1>>, total_amount |-> sum(in_month(ym), "total_amount")] :
                 ym \in {<<sales[i].year, sales[i].month>> : i \in DOMAIN sales}},
         category_sales |->
             {[category |-> v, total_amount |-> sum(of(sales, "category", v), "total_amount")] :
                 v \in Groups(sales, "category")},
         country_sales |->
             {[country_y |-> v, total_amount |-> sum(of(sales, "country_y", v), "total_amount")] :
                 v \in Groups(sales, "country_y")},
         performance_metrics |->
             {[category |-> v,
               energy_consumption_kwh |-> mean(of(performance, "category", v),
                                               "energy_consumption_kwh"),
               failure_rate |-> mean(of(performance, "category", v), "failure_rate"),
               customer_satisfaction |-> mean(of(performance, "category", v),
                                              "customer_satisfaction"),
               return_rate |-> mean(of(performance, "category", v), "return_rate")] :
                 v \in Groups(performance, "category")},
         energy_satisfaction |->
             [i \in DOMAIN performance |->
                 [energy_consumption_kwh |-> performance[i].energy_consumption_kwh,
                  customer_satisfaction  |-> performance[i].customer_satisfaction,
                  category               |-> performance[i].category,
                  return_rate            |-> performance[i].return_rate]],
         failure_rate |->
             {[category |-> r.category, subcategory |-> r.subcategory,
               failure_rate |->
                   mean(SelectSeq(performance,
                                  LAMBDA q : q.category = r.category
                                             /\ q.subcategory = r.subcategory),
                        "failure_rate")] :
                 r \in {q \in {performance[i] : i \in DOMAIN performance} :
                           q.subcategory # NaText}}]

----------------------------------------------------------------------------
(* pandas_data_processing.py *)

\* pd.to_datetime(column, errors='coerce'): NaT for what is no date
to_datetime_coerce(v) == IF v # NaT /\ IsDate(v) THEN v ELSE NaT

\* .dt.year, .dt.month, .dt.day: NaN of NaT
DatePart(d, k) == IF d = NaT THEN NaN ELSE d[k]

\* Series.fillna(value)
fillna(s, value) == [i \in DOMAIN s |-> IF s[i] = NaN THEN value ELSE s[i]]

\* pd.to_numeric(s, errors='coerce'): NaN for what is no number
to_numeric_coerce(s) == [i \in DOMAIN s |-> IF s[i] = NotANumber THEN NaN ELSE s[i]]

\* df[c] = df[c].fillna(value)
FillColumn(df, c, value) == AssignColumn(df, c, fillna(Column(df, c), value))

\* df[c] = pd.to_numeric(df[c], errors='coerce'), with or without
\* .astype('Int64'), which keeps a missing value missing
NumericColumn(df, c) == AssignColumn(df, c, to_numeric_coerce(Column(df, c)))

\* the columns of cs made numeric one after the other
RECURSIVE NumericColumns(_, _)
NumericColumns(df, cs) ==
    IF cs = <<>> THEN df
    ELSE NumericColumn(NumericColumns(df, SubSeq(cs, 1, Len(cs) - 1)), cs[Len(cs)])

\* (price - manufacturing_cost) / price * 100, in hundredths of a percent and
\* cut off there; missing if the price or the cost is, or if both are 0
profit_margin(price, manufacturing_cost) ==
    IF price = NaN \/ manufacturing_cost = NaN \/ price = 0 THEN NaN
    ELSE ((price - manufacturing_cost) * 10000) \div price

\* the fills first, then the conversions, then the profit margin; the other
\* derived columns of the dimension tables are read by nothing downstream
clean_products_data(df) ==
    LET filled == FillColumn(FillColumn(FillColumn(df, "warranty_years", 1),
                                        "weight_kg", 0), "stock_quantity", 0)
        numeric == NumericColumns(filled, <<"price", "manufacturing_cost", "weight_kg",
                                            "stock_quantity">>)
    IN  AssignColumn(numeric, "profit_margin",
                     [i \in 1..NRows(df) |->
                         profit_margin(numeric.rows[i].price,
                                       numeric.rows[i].manufacturing_cost)])

clean_customers_data(df) ==
    LET numeric == NumericColumn(FillColumn(df, "lifetime_value", 0), "lifetime_value")
    IN  AssignColumn(AssignColumn(numeric, "acquisition_year", [i \in 1..NRows(df) |-> "v"]),
                     "acquisition_month", [i \in 1..NRows(df) |-> "v"])

clean_stores_data(df) ==
    LET numeric == NumericColumn(FillColumn(df, "size_sqm", 0), "size_sqm")
    IN  AssignColumn(numeric, "opening_year", [i \in 1..NRows(df) |-> "v"])

clean_sales_data(df) ==
    LET q == FillColumn(FillColumn(df, "quantity", 1), "discount", 0)
        filled == NumericColumns(q, <<"quantity", "unit_price", "discount", "final_price",
                                      "total_amount">>)
        dated == AssignColumn(filled, "transaction_date",
                     [i \in 1..NRows(df) |-> to_datetime_coerce(df.rows[i].transaction_date)])
        y == AssignColumn(dated, "transaction_year",
                     [i \in 1..NRows(df) |-> DatePart(dated.rows[i].transaction_date, 1)])
        m == AssignColumn(y, "transaction_month",
                     [i \in 1..NRows(df) |-> DatePart(dated.rows[i].transaction_date, 2)])
    IN  AssignColumn(m, "transaction_day",
                     [i \in 1..NRows(df) |-> DatePart(dated.rows[i].transaction_date, 3)])

\* .str[:4] of a missing year_month is NaN, and .astype(int) of it raises
\* ValueError
clean_performance_data_raises(df) ==
    \E i \in 1..NRows(df) : df.rows[i].year_month = NaText

\* df['year_month'].str[:4].astype(int) and .str[5:7].astype(int)
clean_performance_data(df) ==
    LET filled == FillColumn(FillColumn(FillColumn(FillColumn(FillColumn(df,
                      "energy_consumption_kwh", 0), "failure_rate", 0),
                      "customer_satisfaction", 3), "return_rate", 0), "warranty_claims", 0)
        numeric == NumericColumns(filled, <<"energy_consumption_kwh", "failure_rate",
                                            "customer_satisfaction", "return_rate",
                                            "warranty_claims">>)
        y == AssignColumn(numeric, "year",
                 [i \in 1..NRows(df) |-> StrToInt(SubSeq(df.rows[i].year_month, 1, 4))])
    IN  AssignColumn(y, "month",
                 [i \in 1..NRows(df) |-> StrToInt(SubSeq(df.rows[i].year_month, 6, 7))])

----------------------------------------------------------------------------
(* The cleaned input tables the builder may find on disk *)

ProductIds == {"P1", "P2"}

CustomerIds == {"C1"}

StoreIds == {"S1"}

\* transaction dates: the day before the date dimension, its first and last day,
\* the day after it, and a missing date
SaleDates == {<<2021, 12, 31>>, <<2022, 1, 1>>, <<2023, 12, 31>>, <<2024, 1, 1>>, NaT}

\* years of performance rows: the four-digit years at both ends, and the
\* generator's two
PerfYears == {1000, 2022, 2023, 9999}

ProductsCols == <<"product_id", "product_name", "category", "subcategory",
                  "energy_rating", "price", "manufacturing_cost", "warranty_years",
                  "weight_kg", "stock_quantity", "launch_date", "profit_margin">>

CustomersCols == <<"customer_id", "customer_name", "country", "segment",
                   "acquisition_date", "lifetime_value", "acquisition_year",
                   "acquisition_month">>

StoresCols == <<"store_id", "store_name", "country", "store_type", "opening_date",
                "size_sqm", "opening_year">>

SalesCols == <<"transaction_id", "product_id", "customer_id", "store_id",
               "transaction_date", "quantity", "unit_price", "discount", "final_price",
               "total_amount", "payment_method", "transaction_year",
               "transaction_month", "transaction_day">>

PerformanceCols == <<"product_id", "year_month", "energy_consumption_kwh",
                     "failure_rate", "customer_satisfaction", "return_rate",
                     "warranty_claims", "year", "month">>

\* a row over cols: the cells given by the record given, any other cell a value
\* that plays no part in the builder, a number in a numeric column
Row(cols, given) ==
    [c \in ToSet(cols) |-> IF c \in DOMAIN given THEN given[c]
                           ELSE IF c \in IntCols THEN 1 ELSE "v"]

ProductsTable(ids) ==
    [cols |-> ProductsCols,
     rows |-> [i \in DOMAIN ids |->
                 Row(ProductsCols, [product_id |-> ids[i], price |-> 1000])]]

CustomersTable(ids) ==
    [cols |-> CustomersCols,
     rows |-> [i \in DOMAIN ids |-> Row(CustomersCols, [customer_id |-> ids[i]])]]

StoresTable(ids) ==
    [cols |-> StoresCols,
     rows |-> [i \in DOMAIN ids |-> Row(StoresCols, [store_id |-> ids[i]])]]

\* a sales line <<product, customer, store, date>>
SalesTable(lines) ==
    [cols |-> SalesCols,
     rows |-> [i \in DOMAIN lines |->
                 Row(SalesCols, [transaction_id   |-> <<"T", i>>,
                                 product_id       |-> lines[i][1],
                                 customer_id      |-> lines[i][2],
                                 store_id         |-> lines[i][3],
                                 transaction_date  |-> lines[i][4],
                                 quantity          |-> 1,
                                 unit_price        |-> 1000,
                                 discount          |-> 0,
                                 final_price       |-> 1000,
                                 total_amount      |-> 1000,
                                 transaction_year  |-> DatePart(lines[i][4], 1),
                                 transaction_month |-> DatePart(lines[i][4], 2),
                                 transaction_day   |-> DatePart(lines[i][4], 3)])]]

\* a performance line <<product, <<year, month>>>>
PerformanceTable(lines) ==
    [cols |-> PerformanceCols,
     rows |-> [i \in DOMAIN lines |->
                 Row(PerformanceCols, [product_id |-> lines[i][1],
                                       year_month |-> strftime_Ym(lines[i][2]),
                                       year       |-> lines[i][2][1],
                                       month      |-> lines[i][2][2]])]]

----------------------------------------------------------------------------
(* The state machine: main() of star_schema_model.py, then the dashboard *)

Tables == ToSet(Inputs) \cup ToSet(Artifacts)

NoLocals == [t \in Tables |-> NoTable]

NoPrepared == [sales_data |-> NoTable, performance_data |-> NoTable]

\* the dashboard before its first callback
NoSelection == [categories |-> {}, countries |-> {}, years |-> {}]

NoOutputs == [total_sales |-> <<>>, avg_satisfaction |-> <<>>, avg_profit_margin |-> <<>>,
              sales_trend |-> {}, category_sales |-> {}, country_sales |-> {},
              performance_metrics |-> {}, energy_satisfaction |-> <<>>,
              failure_rate |-> {}]

NoDash == [loaded |-> FALSE, run |-> 0, tables |-> [a \in ToSet(Artifacts) |-> NoTable],
           stage |-> "none", prepared |-> NoPrepared,
           calls |-> 0, selected |-> NoSelection, raised |-> FALSE, outputs |-> NoOutputs]

NoDisk(names) == [n \in ToSet(names) |-> NoFile]

\* the generator before it has made its first table
NoGen ==
    [products |-> NoTable, customers |-> NoTable, stores |-> NoTable, sales |-> NoTable,
     product |-> 0, current_date |-> NaT, performance |-> <<>>]

\* the deployment script not started, and neither a deployment directory nor a
\* README.md
NoDeploy == [pc |-> "none", exists |-> "absent", entries |-> {}, readme |-> "absent",
             runs |-> 0, found |-> {}, previous |-> [known |-> FALSE, entries |-> {}]]

\* the five processed files as save_processed_data writes them
ProcessedFiles(tables) == [n \in ToSet(Inputs) |-> File(to_csv(tables[n]))]

InitBuilder(tables) ==
    /\ processed = ProcessedFiles(tables)
    /\ star_schema = NoDisk(Artifacts)
    /\ pc = "load"
    /\ loc = [tables |-> NoLocals, written |-> 0]
    /\ run = 1
    /\ dash = NoDash
    /\ gen = NoGen
    /\ deploy = NoDeploy
    /\ sample_data = NoDisk(Inputs)

\* The sales and performance rows of the data sets that differ in the dimension
\* tables
KeyCaseFacts(p, c, s) ==
    [products    |-> ProductsTable(p),
     customers   |-> CustomersTable(c),
     stores      |-> StoresTable(s),
     sales       |-> SalesTable(<<<<"P1", "C1", "S1", <<2022, 3, 5>>>>,
                                  <<"P2", "C1", "S1", <<2023, 7, 9>>>>>>),
     performance |-> PerformanceTable(<<<<"P1", <<2022, 3>>>>, <<"P2", <<2023, 12>>>>>>)]

\* Data sets that differ in the dimension tables: any rows, with repeated ids and
\* with ids that sales and performance rows refer to left out, in the product
\* table or in the customer and store tables
KeyCases ==
    {KeyCaseFacts(p, <<"C1">>, <<"S1">>) : p \in SeqsUpTo(ProductIds, MaxRows)}
    \cup {KeyCaseFacts(<<"P1", "P2">>, c, s) :
              c \in SeqsUpTo(CustomerIds, MaxRows), s \in SeqsUpTo(StoreIds, MaxRows)}

\* Data sets that differ in the sales rows: sales of any one product, on any
\* transaction dates
DateCases ==
    {[products    |-> ProductsTable(<<"P1">>),
      customers   |-> CustomersTable(<<"C1">>),
      stores      |-> StoresTable(<<"S1">>),
      sales       |-> SalesTable([i \in DOMAIN x[2] |-> <<x[1][1], x[1][2], x[1][3], x[2][i]>>]),
      performance |-> PerformanceTable(<<>>)] :
        x \in (ProductIds \X CustomerIds \X StoreIds) \X SeqsUpTo(SaleDates, MaxSales)}

\* Data sets that differ in the one performance row: any year and month
PerformanceCases ==
    {[products    |-> ProductsTable(<<"P1">>),
      customers   |-> CustomersTable(<<"C1">>),
      stores      |-> StoresTable(<<"S1">>),
      sales       |-> SalesTable(<<>>),
      performance |-> PerformanceTable(<<<<"P1", <<y, m>>>>>>)] :
        y \in PerfYears, m \in 1..12}

Init == \E tables \in KeyCases \cup DateCases \cup PerformanceCases : InitBuilder(tables)

Set(name, table) == loc' = [loc EXCEPT !.tables[name] = table]

\* pd.read_csv of a file that is not there raises FileNotFoundError
load_processed_data_raises(disk) == \E n \in ToSet(Inputs) : ~disk[n].exists

\* a builder that empties its output directory before it reads its inputs
LoadProcessedData_clearing ==
    /\ pc = "load"
    /\ star_schema' = NoDisk(Artifacts)
    /\ IF load_processed_data_raises(processed)
       THEN pc' = "failed" /\ UNCHANGED loc
       ELSE /\ loc' = [loc EXCEPT !.tables =
                        [t \in Tables |-> IF t \in ToSet(Inputs)
                                          THEN read_csv(processed[t].lines) ELSE NoTable]]
            /\ pc' = "date_dim"
    /\ UNCHANGED <<processed, run, dash, sample_data, gen, deploy>>

\* load_processed_data: read_csv of the five processed files; an exception ends
\* the process before anything is built
LoadProcessedData ==
    /\ pc = "load"
    /\ IF load_processed_data_raises(processed)
       THEN pc' = "failed" /\ UNCHANGED loc
       ELSE /\ loc' = [loc EXCEPT !.tables =
                        [t \in Tables |-> IF t \in ToSet(Inputs)
                                          THEN read_csv(processed[t].lines) ELSE NoTable]]
            /\ pc' = "date_dim"
    /\ UNCHANGED <<processed, star_schema, run, dash, sample_data, gen, deploy>>

CreateDateDimension ==
    /\ pc = "date_dim"
    /\ Set("dim_date", create_date_dimension)
    /\ pc' = "product_dim"
    /\ UNCHANGED <<processed, star_schema, run, dash, sample_data, gen, deploy>>

CreateProductDimension ==
    /\ pc = "product_dim"
    /\ Set("dim_product", create_product_dimension(loc.tables.products))
    /\ pc' = "customer_dim"
    /\ UNCHANGED <<processed, star_schema, run, dash, sample_data, gen, deploy>>

CreateCustomerDimension ==
    /\ pc = "customer_dim"
    /\ Set("dim_customer", create_customer_dimension(loc.tables.customers))
    /\ pc' = "store_dim"
    /\ UNCHANGED <<processed, star_schema, run, dash, sample_data, gen, deploy>>

CreateStoreDimension ==
    /\ pc = "store_dim"
    /\ Set("dim_store", create_store_dimension(loc.tables.stores))
    /\ pc' = "sales_fact"
    /\ UNCHANGED <<processed, star_schema, run, dash, sample_data, gen, deploy>>

\* a main that catches the exception of create_sales_fact and goes on with an
\* empty fact table
CreateSalesFact_caught ==
    /\ pc = "sales_fact"
    /\ Set("fact_sales",
           IF create_sales_fact_raises(loc.tables.sales)
           THEN [cols |-> <<"sales_key">> \o SalesFactCols, rows |-> <<>>]
           ELSE create_sales_fact(loc.tables.sales, loc.tables.dim_product,
                                  loc.tables.dim_customer, loc.tables.dim_store,
                                  loc.tables.dim_date))
    /\ pc' = "performance_fact"
    /\ UNCHANGED <<processed, star_schema, run, dash, sample_data, gen, deploy>>

\* an exception ends the process with a stack trace: nothing is written
CreateSalesFact ==
    /\ pc = "sales_fact"
    /\ IF create_sales_fact_raises(loc.tables.sales)
       THEN pc' = "failed" /\ UNCHANGED loc
       ELSE /\ Set("fact_sales",
                   create_sales_fact(loc.tables.sales, loc.tables.dim_product,
                                     loc.tables.dim_customer, loc.tables.dim_store,
                                     loc.tables.dim_date))
            /\ pc' = "performance_fact"
    /\ UNCHANGED <<processed, star_schema, run, dash, sample_data, gen, deploy>>

CreatePerformanceFact ==
    /\ pc = "performance_fact"
    /\ Set("fact_performance",
           create_performance_fact(loc.tables.performance, loc.tables.dim_product,
                                   loc.tables.dim_date))
    /\ pc' = "save"
    /\ UNCHANGED <<processed, star_schema, run, dash, sample_data, gen, deploy>>

\* save_star_schema: one to_csv after the other
SaveArtifact ==
    /\ pc = "save"
    /\ loc.written < Len(Artifacts)
    /\ star_schema' = save_artifact(star_schema, loc.tables, loc.written + 1)
    /\ loc' = [loc EXCEPT !.written = loc.written + 1]
    /\ UNCHANGED <<processed, pc, run, dash, sample_data, gen, deploy>>

\* the summary is printed and main() returns
Finish ==
    /\ pc = "save"
    /\ loc.written = Len(Artifacts)
    /\ pc' = "done"
    /\ UNCHANGED <<processed, star_schema, loc, run, dash, sample_data, gen, deploy>>

\* the script is run again; the model follows the builder's runs up to the
\* start of the dashboard
Rerun ==
    /\ pc \in {"done", "failed", "crashed"}
    /\ run < MaxRuns
    /\ dash.stage = "none"
    /\ run' = run + 1
    /\ pc' = "load"
    /\ loc' = [tables |-> NoLocals, written |-> 0]
    /\ UNCHANGED <<processed, star_schema, dash, sample_data, gen, deploy>>

\* app.py main(): load_star_schema_data(DATA_DIR), once the builder has run
LoadStarSchemaData ==
    /\ pc = "done"
    /\ dash.run # run
    /\ \A a \in ToSet(Artifacts) : star_schema[a].exists
    /\ dash' = [NoDash EXCEPT !.loaded = TRUE, !.run = run,
                               !.tables = load_star_schema_data(star_schema),
                               !.stage = "loaded"]
    /\ UNCHANGED <<processed, star_schema, pc, loc, run, sample_data, gen, deploy>>

\* app.py main(): prepare_dashboard_data on the tables just loaded; a KeyError
\* ends the dashboard process
PrepareDashboardData ==
    /\ dash.stage = "loaded"
    /\ dash' = IF prepare_dashboard_data_raises(dash.tables)
               THEN [dash EXCEPT !.stage = "failed"]
               ELSE [dash EXCEPT !.stage = "prepared",
                                 !.prepared = prepare_dashboard_data(dash.tables)]
    /\ UNCHANGED <<processed, star_schema, pc, loc, run, sample_data, gen, deploy>>

Next ==
    \/ LoadProcessedData
    \/ CreateDateDimension
    \/ CreateProductDimension
    \/ CreateCustomerDimension
    \/ CreateStoreDimension
    \/ CreateSalesFact
    \/ CreatePerformanceFact
    \/ SaveArtifact
    \/ Finish
    \/ Rerun
    \/ LoadStarSchemaData
    \/ PrepareDashboardData

Spec == Init /\ [][Next]_vars

----------------------------------------------------------------------------
(* The dashboard's callback on artifacts of several categories, countries and
   years *)

\* callbacks the model follows in one run of the dashboard
MaxCalls == 1

\* sales rows of one data set
MaxDashSales == 2

Categories == {"KITCHEN", "LAUNDRY"}

Countries == {"UK", "USA"}

Years == {2022, 2023}

\* sales rows a data set is made of: <<product, customer, store, date>>
DashSaleLines == <<<<"P1", "C1", "S1", <<2022, 3, 5>>>>,
                   <<"P2", "C1", "S2", <<2023, 7, 9>>>>,
                   <<"P1", "C1", "S2", <<2023, 7, 10>>>>,
                   <<"P2", "C1", "S1", <<2024, 1, 1>>>>>>

\* a KITCHEN product P1 and a LAUNDRY product P2, a store S1 in the USA and a
\* store S2 in the UK, the sales rows of DashSaleLines at the positions in
\* picked, and one performance row for each product, in 2022 and in 2023
DashboardCase(picked) ==
    LET product(id, category, subcategory) ==
            Row(ProductsCols, [product_id |-> id, category |-> category,
                               subcategory |-> subcategory, price |-> 1000,
                               profit_margin |-> IF id = "P1" THEN 4000 ELSE 5050])
        store(id, country) == Row(StoresCols, [store_id |-> id, country |-> country])
        performance(id, ym, satisfaction) ==
            Row(PerformanceCols, [product_id |-> id, year_month |-> strftime_Ym(ym),
                                  year |-> ym[1], month |-> ym[2],
                                  customer_satisfaction |-> satisfaction])
    IN  [products    |-> [cols |-> ProductsCols,
                          rows |-> <<product("P1", "KITCHEN", "BLENDER"),
                                     product("P2", "LAUNDRY", "DRYER")>>],
         customers   |-> CustomersTable(<<"C1">>),
         stores      |-> [cols |-> StoresCols,
                          rows |-> <<store("S1", "USA"), store("S2", "UK")>>],
         sales       |-> SalesTable([i \in DOMAIN picked |-> DashSaleLines[picked[i]]]),
         performance |-> [cols |-> PerformanceCols,
                          rows |-> <<performance("P1", <<2022, 3>>, 4),
                                     performance("P2", <<2023, 12>>, 3),
                                     performance("P1", <<2023, 1>>, 5)>>]]

\* the positions of up to MaxDashSales sales rows, in the order of the file
DashboardCases ==
    {DashboardCase(picked) :
        picked \in {p \in SeqsUpTo(DOMAIN DashSaleLines, MaxDashSales) :
                       \A i, j \in DOMAIN p : i < j => p[i] < p[j]}}

InitDashboard == \E tables \in DashboardCases : InitBuilder(tables)

\* one call of update_dashboard, with any selection in the three filters; an
\* exception in the callback leaves the page as it is
UpdateDashboard ==
    /\ dash.stage = "prepared"
    /\ dash.calls < MaxCalls
    /\ \E categories \in SUBSET Categories, countries \in SUBSET Countries,
          years \in SUBSET Years :
          LET raises == update_dashboard_raises(dash.prepared.sales_data, categories,
                                                countries, years)
          IN  dash' = [dash EXCEPT
                         !.calls = @ + 1,
                         !.selected = [categories |-> categories, countries |-> countries,
                                       years |-> years],
                         !.raised = raises,
                         !.outputs = IF raises THEN @
                                     ELSE update_dashboard(dash.prepared.sales_data,
                                                           dash.prepared.performance_data,
                                                           categories, countries, years)]
    /\ UNCHANGED <<processed, star_schema, pc, loc, run, sample_data, gen, deploy>>

NextDashboard ==
    \/ LoadProcessedData
    \/ CreateDateDimension
    \/ CreateProductDimension
    \/ CreateCustomerDimension
    \/ CreateStoreDimension
    \/ CreateSalesFact
    \/ CreatePerformanceFact
    \/ SaveArtifact
    \/ Finish
    \/ LoadStarSchemaData
    \/ PrepareDashboardData
    \/ UpdateDashboard

SpecDashboard == InitDashboard /\ [][NextDashboard]_vars

----------------------------------------------------------------------------
(* Rebuilds: the builder run again after the processed files have changed, and
   runs that stop in the middle of save_star_schema *)

\* the processed tables of a rebuild: n product rows, and a sale with or without
\* a transaction date
RebuildCase(n, d) ==
    [products    |-> ProductsTable(SubSeq(<<"P1", "P2", "P1", "P2">>, 1, n)),
     customers   |-> CustomersTable(<<"C1">>),
     stores      |-> StoresTable(<<"S1">>),
     sales       |-> SalesTable(<<<<"P2", "C1", "S1", d>>>>),
     performance |-> PerformanceTable(<<<<"P1", <<2022, 3>>>>>>)]

RebuildCases ==
    {RebuildCase(n, <<2022, 3, 5>>) : n \in 1..MaxRows} \cup {RebuildCase(1, NaT)}

InitRebuild == \E tables \in RebuildCases : InitBuilder(tables)

\* the process is killed between two writes of save_star_schema
Crash ==
    /\ pc = "save"
    /\ loc.written \in 1..(Len(Artifacts) - 1)
    /\ pc' = "crashed"
    /\ UNCHANGED <<processed, star_schema, loc, run, dash, sample_data, gen, deploy>>

\* the processed files are those the run of the builder has read
ReadByRun ==
    \A n \in ToSet(Inputs) :
        processed[n].exists /\ read_csv(processed[n].lines) = loc.tables[n]

\* between two runs of the builder the cleaner is run on other data:
\* save_processed_data replaces the five processed files; the model follows
\* one change of the files the run has read, and the cleaner run again once a
\* file is missing
ReplaceProcessed ==
    /\ pc \in {"done", "failed", "crashed"}
    /\ run < MaxRuns
    /\ ReadByRun \/ load_processed_data_raises(processed)
    /\ \E tables \in RebuildCases :
          /\ processed # ProcessedFiles(tables)
          /\ processed' = ProcessedFiles(tables)
    /\ UNCHANGED <<star_schema, pc, loc, run, dash, sample_data, gen, deploy>>

\* between two runs of the builder one of the processed files goes away
RemoveProcessed ==
    /\ pc \in {"done", "failed", "crashed"}
    /\ run < MaxRuns
    /\ ReadByRun
    /\ \E n \in ToSet(Inputs) : processed' = [processed EXCEPT ![n] = NoFile]
    /\ UNCHANGED <<star_schema, pc, loc, run, dash, sample_data, gen, deploy>>

NextRebuild ==
    \/ LoadProcessedData
    \/ CreateDateDimension
    \/ CreateProductDimension
    \/ CreateCustomerDimension
    \/ CreateStoreDimension
    \/ CreateSalesFact
    \/ CreatePerformanceFact
    \/ SaveArtifact
    \/ Finish
    \/ Crash
    \/ ReplaceProcessed
    \/ RemoveProcessed
    \/ Rerun

SpecRebuild == InitRebuild /\ [][NextRebuild]_vars

----------------------------------------------------------------------------
(* generate_sample_data.py *)

START_DATE == <<2022, 1, 1>>

END_DATE == <<2023, 12, 31>>

\* f'P{i:04d}', f'C{i:04d}', f'S{i:03d}'
ProductIdOf == <<"P0001", "P0002", "P0003">>

CustomerIdOf == <<"C0001", "C0002">>

StoreIdOf == <<"S001", "S002">>

\* values of random.randint(0, 730) the model draws: both ends, and the days
\* around the turn of the year and the end of the date dimension
DayOffsets == {0, 364, 365, 729, 730}

RawProductsCols == SubSeq(ProductsCols, 1, 11)

RawCustomersCols == SubSeq(CustomersCols, 1, 6)

RawStoresCols == SubSeq(StoresCols, 1, 6)

RawSalesCols == SubSeq(SalesCols, 1, 11)

RawPerformanceCols == SubSeq(PerformanceCols, 1, 7)

\* values of round(random.uniform(10, 2000), 2) the model draws, in hundredths:
\* both ends, and prices that a discount takes off the hundredths
Prices == {1000, 1010, 1999, 200000}

\* values of random.randint(1, 5)
Quantities == 1..5

\* values of round(random.uniform(0, 0.3), 2) the model draws, in hundredths
Discounts == {0, 5, 15, 30}

\* prices[i] is the price drawn for product i
generate_product_data(prices) ==
    [cols |-> RawProductsCols,
     rows |-> [i \in 1..NumProducts |->
                 Row(RawProductsCols, [product_id |-> ProductIdOf[i],
                                       price      |-> prices[i]])]]

generate_customer_data ==
    [cols |-> RawCustomersCols,
     rows |-> [i \in 1..NumCustomers |->
                 Row(RawCustomersCols, [customer_id |-> CustomerIdOf[i]])]]

generate_store_data ==
    [cols |-> RawStoresCols,
     rows |-> [i \in 1..NumStores |->
                 Row(RawStoresCols, [store_id |-> StoreIdOf[i]])]]

\* f'T{i:06d}'
TransactionIdOf(i) == <<"T">> \o zfill(IntToStr(i), 6)

\* random.choices in place of random.sample: a product may be drawn again
ProductSamples_with_replacement(products) ==
    {smp \in SeqsUpTo(ToSet(Column(products, "product_id")), 5) : Len(smp) >= 1}

\* random.sample(list(products['product_id']), n): n distinct products in any
\* order; n is random.randint(1, 5), kept within the number of products
ProductSamples(products) ==
    {smp \in SeqsUpTo(ToSet(Column(products, "product_id")), 5) :
        /\ Len(smp) >= 1
        /\ \A i, j \in DOMAIN smp : i # j => smp[i] # smp[j]}

\* round(x, 2) of x = n / 10000: to the nearest hundredth; the float that stands
\* for a value halfway between two hundredths lies on either side of it
round2(n, half_up) ==
    n \div 100 + (IF n % 100 > 50 \/ (n % 100 = 50 /\ half_up) THEN 1 ELSE 0)

\* products.loc[products['product_id'] == product_id, 'price'].values[0]
PriceOf(products, product_id) ==
    LET at == {i \in 1..NRows(products) : products.rows[i].product_id = product_id}
    IN  products.rows[CHOOSE i \in at : \A j \in at : i <= j].price

\* the total taken of the undiscounted price
SaleAmounts_undiscounted(product_price, quantity, discount, half_up) ==
    LET final_price == round2(product_price * (100 - discount), half_up)
    IN  [unit_price   |-> product_price,
         final_price  |-> final_price,
         total_amount |-> product_price * quantity]

\* final_price = round(product_price * (1 - discount), 2) and
\* round(final_price * quantity, 2), a whole number of hundredths
SaleAmounts(product_price, quantity, discount, half_up) ==
    LET final_price == round2(product_price * (100 - discount), half_up)
    IN  [unit_price   |-> product_price,
         final_price  |-> final_price,
         total_amount |-> final_price * quantity]

\* the draws of a transaction on the first day, of the first customer in the
\* first store, for the first product: the day offset, the customer, the store,
\* the products, and for each product the quantity and the discount
PlainDraw(products, customers, stores) ==
    [days     |-> 0,
     customer |-> customers.rows[1].customer_id,
     store    |-> stores.rows[1].store_id,
     products |-> <<products.rows[1].product_id>>,
     quantity |-> <<1>>,
     discount |-> <<0>>,
     half_up  |-> TRUE]

\* draw, for the products smp
WithSample(draw, smp) ==
    [draw EXCEPT !.products = smp,
                 !.quantity = [k \in DOMAIN smp |-> 1],
                 !.discount = [k \in DOMAIN smp |-> 0]]

\* the draws of all the transactions that the model follows, draws[i] those of
\* transaction i: every transaction with the same sample of products; one
\* transaction with any sample of products among plain ones; one transaction
\* with any day, customer and store among plain ones
SalesDraws(products, customers, stores) ==
    LET plain == PlainDraw(products, customers, stores)
        T == 1..NumTransactions
    IN  {[i \in T |-> WithSample(plain, smp)] : smp \in ProductSamples(products)}
        \cup {[i \in T |-> IF i = t THEN WithSample(plain, smp) ELSE plain] :
                 t \in T, smp \in ProductSamples(products)}
        \cup {[i \in T |-> IF i = x[1]
                            THEN [plain EXCEPT !.days = x[2], !.customer = x[3], !.store = x[4]]
                            ELSE plain] :
                 x \in T \X DayOffsets \X ToSet(Column(customers, "customer_id"))
                         \X ToSet(Column(stores, "store_id"))}

\* plain transactions, the first with any quantity and discount
AmountDraws(products, customers, stores) ==
    LET plain == PlainDraw(products, customers, stores)
    IN  {[i \in 1..NumTransactions |->
            IF i = 1 THEN [plain EXCEPT !.quantity = <<x[1]>>, !.discount = <<x[2]>>,
                                        !.half_up = x[3]]
            ELSE plain] : x \in Quantities \X Discounts \X BOOLEAN}

\* every product at the lowest price
PlainPrices == [i \in 1..NumProducts |-> 1000]

\* the draws of a run of the generator that the model follows: the prices of
\* the products and the draws of the transactions.  Plain prices with the
\* draws of SalesDraws; any price of the first product with any quantity and
\* discount of its sale; any prices with every product in every transaction
GeneratorDraws ==
    LET products == generate_product_data(PlainPrices)
        customers == generate_customer_data
        stores == generate_store_data
        plain == PlainDraw(products, customers, stores)
    IN  {[prices |-> PlainPrices, sales |-> d] : d \in SalesDraws(products, customers, stores)}
        \cup {[prices |-> [PlainPrices EXCEPT ![1] = pr], sales |-> d] :
                 pr \in Prices, d \in AmountDraws(products, customers, stores)}
        \cup {[prices |-> prices,
               sales |-> [i \in 1..NumTransactions |->
                            WithSample(plain, Column(products, "product_id"))]] :
                 prices \in [1..NumProducts -> Prices]}

\* the rows of transaction i: one per product, all with the transaction's date
\* START_DATE + timedelta(days=randint(0, 730)) as '%Y-%m-%d'
TransactionRows(i, draw, products) ==
    [k \in 1..Len(draw.products) |->
        LET amounts == SaleAmounts(PriceOf(products, draw.products[k]),
                                   draw.quantity[k], draw.discount[k], draw.half_up)
        IN  Row(RawSalesCols, [transaction_id   |-> TransactionIdOf(i),
                               product_id       |-> draw.products[k],
                               customer_id      |-> draw.customer,
                               store_id         |-> draw.store,
                               transaction_date |-> AddDays(START_DATE, draw.days),
                               quantity         |-> draw.quantity[k],
                               unit_price       |-> amounts.unit_price,
                               discount         |-> draw.discount[k],
                               final_price      |-> amounts.final_price,
                               total_amount     |-> amounts.total_amount])]

RECURSIVE SalesRows(_, _, _)
SalesRows(draws, products, n) ==
    IF n = 0 THEN <<>>
    ELSE SalesRows(draws, products, n - 1) \o TransactionRows(n, draws[n], products)

\* draws[i] are the random draws of transaction i
generate_sales_data(draws, products) ==
    [cols |-> RawSalesCols, rows |-> SalesRows(draws, products, NumTransactions)]

\* the loop over the months of one product: a row for current_date, then the
\* first day of the next month, while current_date <= END_DATE
\* a step of timedelta(days=31) in place of the first day of the next month
next_month_thirty_one_days(current_date) == AddDays(current_date, 31)

\* "Move to next month": datetime(year + 1, 1, 1) after a December, else
\* datetime(year, month + 1, 1)
next_month(current_date) ==
    IF current_date[2] = 12 THEN <<current_date[1] + 1, 1, 1>>
    ELSE <<current_date[1], current_date[2] + 1, 1>>

\* a loop that moves on by timedelta(days=30) in place of the next month
RECURSIVE PerformanceRows_thirty_days(_, _)
PerformanceRows_thirty_days(product_id, current_date) ==
    IF DateLE(current_date, END_DATE)
    THEN <<Row(RawPerformanceCols, [product_id |-> product_id,
                                    year_month |-> strftime_Ym(current_date)])>>
         \o PerformanceRows_thirty_days(product_id, AddDays(current_date, 30))
    ELSE <<>>

RECURSIVE PerformanceRows(_, _)
PerformanceRows(product_id, current_date) ==
    IF DateLE(current_date, END_DATE)
    THEN <<Row(RawPerformanceCols, [product_id |-> product_id,
                                    year_month |-> strftime_Ym(current_date)])>>
         \o PerformanceRows(product_id, next_month(current_date))
    ELSE <<>>

RECURSIVE ProductsPerformanceRows(_, _)
ProductsPerformanceRows(products, n) ==
    IF n = 0 THEN <<>>
    ELSE ProductsPerformanceRows(products, n - 1)
         \o PerformanceRows(products.rows[n].product_id, START_DATE)

\* performance rows for every product id there is, generated or not
generate_product_performance_data_every_id(products) ==
    [cols |-> RawPerformanceCols,
     rows |-> ProductsPerformanceRows(
                  [rows |-> [i \in DOMAIN ProductIdOf |-> [product_id |-> ProductIdOf[i]]]],
                  Len(ProductIdOf))]

generate_product_performance_data(products) ==
    [cols |-> RawPerformanceCols,
     rows |-> ProductsPerformanceRows(products, NRows(products))]

----------------------------------------------------------------------------
(* The pipeline: generator, cleaner, star-schema builder *)

InitPipeline ==
    /\ sample_data = NoDisk(Inputs)
    /\ processed = NoDisk(Inputs)
    /\ star_schema = NoDisk(Artifacts)
    /\ pc = "generate"
    /\ loc = [tables |-> NoLocals, written |-> 0]
    /\ run = 1
    /\ dash = NoDash
    /\ gen = NoGen
    /\ deploy = NoDeploy

\* generate_sample_data.py main(): the five tables, each written as it is made
Generate ==
    /\ pc = "generate"
    /\ \E g \in GeneratorDraws :
          LET products == generate_product_data(g.prices)
          IN  sample_data' =
                  [products    |-> File(to_csv(products)),
                   customers   |-> File(to_csv(generate_customer_data)),
                   stores      |-> File(to_csv(generate_store_data)),
                   sales       |-> File(to_csv(generate_sales_data(g.sales, products))),
                   performance |-> File(to_csv(generate_product_performance_data(products)))]
    /\ pc' = "clean"
    /\ UNCHANGED <<processed, star_schema, loc, run, dash, gen, deploy>>

\* the five processed files the cleaner makes of the five sample-data files
clean_files(disk) ==
    [products    |-> File(to_csv(clean_products_data(read_csv(disk.products.lines)))),
     customers   |-> File(to_csv(clean_customers_data(read_csv(disk.customers.lines)))),
     stores      |-> File(to_csv(clean_stores_data(read_csv(disk.stores.lines)))),
     sales       |-> File(to_csv(clean_sales_data(read_csv(disk.sales.lines)))),
     performance |-> File(to_csv(clean_performance_data(read_csv(disk.performance.lines))))]

\* a cleaner that saves the cleaned tables over the files it has read as well
Clean_in_place ==
    /\ pc = "clean"
    /\ \A n \in ToSet(Inputs) : sample_data[n].exists
    /\ processed' = clean_files(sample_data)
    /\ sample_data' = clean_files(sample_data)
    /\ pc' = "load"
    /\ UNCHANGED <<star_schema, loc, run, dash, gen, deploy>>

\* pandas_data_processing.py main(): load_data, the five clean functions,
\* save_processed_data
\* save_processed_data; an exception in a clean function ends main() before it
Clean ==
    /\ pc = "clean"
    /\ \A n \in ToSet(Inputs) : sample_data[n].exists
    /\ IF clean_performance_data_raises(read_csv(sample_data.performance.lines))
       THEN pc' = "failed" /\ UNCHANGED processed
       ELSE pc' = "load" /\ processed' = clean_files(sample_data)
    /\ UNCHANGED <<sample_data, star_schema, loc, run, dash, gen, deploy>>

NextPipeline ==
    \/ Generate
    \/ Clean
    \/ LoadProcessedData
    \/ CreateDateDimension
    \/ CreateProductDimension
    \/ CreateCustomerDimension
    \/ CreateStoreDimension
    \/ CreateSalesFact
    \/ CreatePerformanceFact
    \/ SaveArtifact
    \/ Finish
    \/ LoadStarSchemaData
    \/ PrepareDashboardData

SpecPipeline == InitPipeline /\ [][NextPipeline]_vars

----------------------------------------------------------------------------
(* The generator step by step: its five functions, and the loops of
   generate_product_performance_data *)

InitGenerator ==
    /\ sample_data = NoDisk(Inputs)
    /\ processed = NoDisk(Inputs)
    /\ star_schema = NoDisk(Artifacts)
    /\ pc = "generate_products"
    /\ loc = [tables |-> NoLocals, written |-> 0]
    /\ run = 1
    /\ dash = NoDash
    /\ gen = NoGen
    /\ deploy = NoDeploy

GenerateProductData ==
    /\ pc = "generate_products"
    /\ \E prices \in {g.prices : g \in GeneratorDraws} :
          /\ gen' = [gen EXCEPT !.products = generate_product_data(prices)]
          /\ sample_data' = [sample_data EXCEPT
                                !.products = File(to_csv(generate_product_data(prices)))]
    /\ pc' = "generate_customers"
    /\ UNCHANGED <<processed, star_schema, loc, run, dash, deploy>>

GenerateCustomerData ==
    /\ pc = "generate_customers"
    /\ gen' = [gen EXCEPT !.customers = generate_customer_data]
    /\ sample_data' = [sample_data EXCEPT !.customers = File(to_csv(generate_customer_data))]
    /\ pc' = "generate_stores"
    /\ UNCHANGED <<processed, star_schema, loc, run, dash, deploy>>

GenerateStoreData ==
    /\ pc = "generate_stores"
    /\ gen' = [gen EXCEPT !.stores = generate_store_data]
    /\ sample_data' = [sample_data EXCEPT !.stores = File(to_csv(generate_store_data))]
    /\ pc' = "generate_sales"
    /\ UNCHANGED <<processed, star_schema, loc, run, dash, deploy>>

GenerateSalesData ==
    /\ pc = "generate_sales"
    /\ \E g \in GeneratorDraws :
          /\ g.prices = Column(gen.products, "price")
          /\ gen' = [gen EXCEPT !.sales = generate_sales_data(g.sales, gen.products)]
          /\ sample_data' = [sample_data EXCEPT
                                !.sales = File(to_csv(generate_sales_data(g.sales, gen.products)))]
    /\ pc' = "performance_for"
    /\ UNCHANGED <<processed, star_schema, loc, run, dash, deploy>>

\* for _, product in products.iterrows(): the next product with current_date =
\* START_DATE, or after the last one the table is made and written
PerformanceFor ==
    /\ pc = "performance_for"
    /\ IF gen.product < NRows(gen.products)
       THEN /\ gen' = [gen EXCEPT !.product = gen.product + 1, !.current_date = START_DATE]
            /\ pc' = "performance_while"
            /\ UNCHANGED sample_data
       ELSE /\ sample_data' = [sample_data EXCEPT !.performance =
                                  File(to_csv([cols |-> RawPerformanceCols,
                                               rows |-> gen.performance]))]
            /\ pc' = "generated"
            /\ UNCHANGED gen
    /\ UNCHANGED <<processed, star_schema, loc, run, dash, deploy>>

\* while current_date <= END_DATE: one row for the month of current_date, then
\* the next month
PerformanceWhile ==
    /\ pc = "performance_while"
    /\ IF DateLE(gen.current_date, END_DATE)
       THEN /\ gen' = [gen EXCEPT
                         !.performance = Append(gen.performance,
                             Row(RawPerformanceCols,
                                 [product_id |-> gen.products.rows[gen.product].product_id,
                                  year_month |-> strftime_Ym(gen.current_date)])),
                         !.current_date = next_month(gen.current_date)]
            /\ pc' = "performance_while"
       ELSE /\ pc' = "performance_for"
            /\ UNCHANGED gen
    /\ UNCHANGED <<processed, star_schema, loc, run, dash, sample_data, deploy>>

NextGenerator ==
    \/ GenerateProductData
    \/ GenerateCustomerData
    \/ GenerateStoreData
    \/ GenerateSalesData
    \/ PerformanceFor
    \/ PerformanceWhile

SpecGenerator == InitGenerator /\ [][NextGenerator]_vars

\* the generator is a running process: it takes its next step
SpecGeneratorFair == SpecGenerator /\ WF_vars(NextGenerator)

----------------------------------------------------------------------------
(* The cleaner and the builder on sample data that was not generated *)

\* transaction dates of a sales.csv: days, and texts that are no date (the 30th
\* of February, a 13th month, an empty field)
RawSaleDates ==
    {<<2022, 3, 5>>, <<2023, 12, 31>>, <<2024, 2, 29>>,
     <<2023, 2, 30>>, <<2023, 13, 1>>, NaT}

\* the five sample-data files with the given sales lines
CleanerCase(sl) ==
    [products    |-> File(to_csv(SelectColumns(ProductsTable(<<"P1">>), RawProductsCols))),
     customers   |-> File(to_csv(SelectColumns(CustomersTable(<<"C1">>), RawCustomersCols))),
     stores      |-> File(to_csv(SelectColumns(StoresTable(<<"S1">>), RawStoresCols))),
     sales       |-> File(to_csv(SelectColumns(
                         SalesTable([i \in DOMAIN sl |-> <<sl[i][1], "C1", "S1", sl[i][2]>>]),
                         RawSalesCols))),
     performance |-> File(to_csv(SelectColumns(
                         PerformanceTable(<<<<"P1", <<2022, 3>>>>>>), RawPerformanceCols)))]

\* the columns the cleaner fills, each with its default
FillDefaults ==
    [quantity |-> 1, discount |-> 0, warranty_years |-> 1, weight_kg |-> 0,
     stock_quantity |-> 0, lifetime_value |-> 0, size_sqm |-> 0,
     energy_consumption_kwh |-> 0, failure_rate |-> 0, customer_satisfaction |-> 3,
     return_rate |-> 0, warranty_claims |-> 0]

\* cells of a numeric column of a sample-data file: a number, an empty field, a
\* text that is no number
RawNumbers == {1, NaN, NotANumber}

\* the file, with x in every cell of column c if it has that column
WithCell(file, c, x) ==
    LET t == read_csv(file.lines)
    IN  IF c \in ToSet(t.cols)
        THEN File(to_csv(AssignColumn(t, c, [i \in 1..NRows(t) |-> x])))
        ELSE file

\* five sample-data files of one row each, with x in column c
FillCase(c, x) ==
    LET files == CleanerCase(<<<<"P1", <<2022, 3, 5>>>>>>)
    IN  [n \in ToSet(Inputs) |-> WithCell(files[n], c, x)]

\* the customer and the store that go with a product in the files of OrderCase
CustomerOf == [P1 |-> "C1", P2 |-> "C2"]

StoreOf == [P1 |-> "S1", P2 |-> "S2"]

\* five sample-data files with one row for each of ids, in that order: row i
\* holds i in one numeric column and, in a column the cleaner fills, x if it is
\* the first row and i if not; the first performance row has a year_month unless
\* no_month
OrderCase(ids, x, no_month) ==
    LET cell(i) == IF i = 1 THEN x ELSE i
        table(cols, row(_)) == File(to_csv([cols |-> cols,
                                            rows |-> [i \in DOMAIN ids |-> Row(cols, row(i))]]))
        product(i) == [product_id |-> ids[i], price |-> i, weight_kg |-> cell(i)]
        customer(i) == [customer_id |-> CustomerOf[ids[i]], lifetime_value |-> cell(i)]
        store(i) == [store_id |-> StoreOf[ids[i]], size_sqm |-> cell(i)]
        sale(i) == [transaction_id |-> <<"T", i>>, product_id |-> ids[i],
                    customer_id |-> CustomerOf[ids[i]], store_id |-> StoreOf[ids[i]],
                    transaction_date |-> <<2022, 3, 5>>, quantity |-> i,
                    discount |-> cell(i)]
        performance(i) == [product_id |-> ids[i],
                           year_month |-> IF i = 1 /\ no_month THEN NaText
                                         ELSE strftime_Ym(<<2022, 3>>),
                           warranty_claims |-> i, failure_rate |-> cell(i)]
    IN  [products    |-> table(RawProductsCols, product),
         customers   |-> table(RawCustomersCols, customer),
         stores      |-> table(RawStoresCols, store),
         sales       |-> table(RawSalesCols, sale),
         performance |-> table(RawPerformanceCols, performance)]

InitCleaner ==
    /\ \/ \E sl \in SeqsUpTo(ProductIds \X RawSaleDates, MaxSales) :
             sample_data = CleanerCase(sl)
       \/ \E c \in DOMAIN FillDefaults, x \in RawNumbers : sample_data = FillCase(c, x)
       \/ \E ids \in SeqsUpTo(ProductIds, MaxRows), x \in RawNumbers,
                no_month \in BOOLEAN :
             sample_data = OrderCase(ids, x, no_month)
    /\ processed = NoDisk(Inputs)
    /\ star_schema = NoDisk(Artifacts)
    /\ pc = "clean"
    /\ loc = [tables |-> NoLocals, written |-> 0]
    /\ run = 1
    /\ dash = NoDash
    /\ gen = NoGen
    /\ deploy = NoDeploy

NextCleaner ==
    \/ Clean
    \/ LoadProcessedData
    \/ CreateDateDimension
    \/ CreateProductDimension
    \/ CreateCustomerDimension
    \/ CreateStoreDimension
    \/ CreateSalesFact
    \/ CreatePerformanceFact
    \/ SaveArtifact
    \/ Finish

SpecCleaner == InitCleaner /\ [][NextCleaner]_vars

----------------------------------------------------------------------------
(* prepare_deployment.py *)

\* runs of the deployment script the model follows
MaxDeployRuns == 2

\* An entry of the deployment directory is <<path, content>>: the content of a
\* file, or "dir" for a directory.
AssetsDir == <<<<"assets">>, "dir">>

\* what may lie in the deployment directory before a run: files of an earlier
\* deployment and files put there by hand
Leftovers == {AssetsDir, <<<<"assets", "logo.png">>, "logo">>, <<<<"old.txt">>, "old">>,
              <<<<"index.html">>, "index.html of an earlier version">>}

\* a directory tree has the directory of each of its files
IsTree(entries) == \A e \in entries : Len(e[1]) = 2 => AssetsDir \in entries

\* contents of the project's README.md
Readmes == {"readme"}

\* os.makedirs(exist_ok=True) in place of rmtree and makedirs: what is there stays
create_deployment_directory_exist_ok(entries) == entries \cup {AssetsDir}

\* shutil.rmtree of the directory if there is one, os.makedirs(deploy_dir) and
\* os.makedirs of its assets directory
create_deployment_directory(entries) == {AssetsDir}

\* shutil.rmtree(path) of a path that is a file raises NotADirectoryError
create_deployment_directory_raises(exists) == exists = "file"

\* open(path, "w") and write, shutil.copy: the file is made or replaced
write(entries, path, content) ==
    {e \in entries : e[1] # path} \cup {<<path, content>>}

create_index_html(entries) == write(entries, <<"index.html">>, "index_html")

\* shutil.copy("README.md", ...) raises FileNotFoundError without a README.md
copy_project_files_raises(readme) == readme = "absent"

copy_project_files(entries, readme) ==
    write(write(entries, <<"README.md">>, readme),
          <<"project_structure.md">>, "project_structure")

\* the script is started where there is no deployment directory, or a
\* directory with anything in it, or a file of that name; the project has a
\* README.md or not
InitDeployment ==
    /\ sample_data = NoDisk(Inputs)
    /\ processed = NoDisk(Inputs)
    /\ star_schema = NoDisk(Artifacts)
    /\ pc = "none"
    /\ loc = [tables |-> NoLocals, written |-> 0]
    /\ run = 1
    /\ dash = NoDash
    /\ gen = NoGen
    /\ \E exists \in {"absent", "dir", "file"}, readme \in Readmes \cup {"absent"} :
          \E entries \in {t \in SUBSET Leftovers : IsTree(t) /\ (exists # "dir" => t = {})} :
              deploy = [NoDeploy EXCEPT !.pc = "create_deployment_directory",
                                        !.exists = exists, !.entries = entries,
                                        !.found = entries, !.readme = readme,
                                        !.runs = 1]

CreateDeploymentDirectory ==
    /\ deploy.pc = "create_deployment_directory"
    /\ deploy' = IF create_deployment_directory_raises(deploy.exists)
                 THEN [deploy EXCEPT !.pc = "failed"]
                 ELSE [deploy EXCEPT !.pc = "create_index_html", !.exists = "dir",
                                     !.entries = create_deployment_directory(@)]
    /\ UNCHANGED <<processed, star_schema, pc, loc, run, dash, sample_data, gen>>

CreateIndexHtml ==
    /\ deploy.pc = "create_index_html"
    /\ deploy' = [deploy EXCEPT !.pc = "copy_project_files",
                                !.entries = create_index_html(@)]
    /\ UNCHANGED <<processed, star_schema, pc, loc, run, dash, sample_data, gen>>

CopyProjectFiles ==
    /\ deploy.pc = "copy_project_files"
    /\ deploy' = IF copy_project_files_raises(deploy.readme)
                 THEN [deploy EXCEPT !.pc = "failed"]
                 ELSE [deploy EXCEPT !.pc = "done",
                                     !.entries = copy_project_files(@, deploy.readme)]
    /\ UNCHANGED <<processed, star_schema, pc, loc, run, dash, sample_data, gen>>

\* the directory the last completed run has left, once the run is over
Left(d) == IF d.pc = "done" THEN [known |-> TRUE, entries |-> d.entries] ELSE d.previous

\* between two runs a file is put into the deployment directory, or replaced
PutFile ==
    /\ deploy.pc \in {"done", "failed", "changed"}
    /\ deploy.exists = "dir"
    /\ deploy.runs < MaxDeployRuns
    /\ \E e \in Leftovers \ deploy.entries :
          /\ IsTree(deploy.entries \cup {e})
          /\ deploy' = [deploy EXCEPT !.pc = "changed",
                                      !.entries = write(@, e[1], e[2]),
                                      !.previous = Left(deploy)]
    /\ UNCHANGED <<processed, star_schema, pc, loc, run, dash, sample_data, gen>>

\* the script is run again, on the directory as it is found
DeployAgain ==
    /\ deploy.pc \in {"done", "failed", "changed"}
    /\ deploy.runs < MaxDeployRuns
    /\ deploy' = [deploy EXCEPT !.pc = "create_deployment_directory",
                                !.runs = @ + 1,
                                !.found = deploy.entries,
                                !.previous = Left(deploy)]
    /\ UNCHANGED <<processed, star_schema, pc, loc, run, dash, sample_data, gen>>

NextDeployment ==
    \/ CreateDeploymentDirectory
    \/ CreateIndexHtml
    \/ CopyProjectFiles
    \/ PutFile
    \/ DeployAgain

SpecDeployment == InitDeployment /\ [][NextDeployment]_vars

----------------------------------------------------------------------------
(* Properties *)

Built(name) == loc.tables[name] # NoTable

\* the natural ids of a dimension's rows
Ids(dim, id) == ToSet(Column(dim, id))

\* dim has the rows of df in df's order, row i with surrogate key i
SameRowsKeyed(df, dim, cols, key) ==
    /\ NRows(dim) = NRows(df)
    /\ ToSet(dim.cols) = ToSet(cols) \cup {key}
    /\ \A i \in 1..NRows(df) :
          /\ dim.rows[i][key] = i
          /\ \A c \in ToSet(cols) : dim.rows[i][c] = df.rows[i][c]
    /\ ToSet(Column(dim, key)) = 1..NRows(df)

\* C1: each entity dimension has exactly the rows of its input table, in the
\* input's order, the row at position i with surrogate key i (keys 1..N); rows
\* with the same natural id are all kept, under different keys.
C1_DimensionRowsKeyedByPosition ==
    /\ Built("dim_product") =>
          SameRowsKeyed(loc.tables.products, loc.tables.dim_product,
                        ProductDimCols, "product_key")
    /\ Built("dim_customer") =>
          SameRowsKeyed(loc.tables.customers, loc.tables.dim_customer,
                        CustomerDimCols, "customer_key")
    /\ Built("dim_store") =>
          SameRowsKeyed(loc.tables.stores, loc.tables.dim_store,
                        StoreDimCols, "store_key")

\* a product dimension built from two rows with the same product_id
C1_Witness ==
    /\ Built("dim_product")
    /\ \E i, j \in 1..NRows(loc.tables.dim_product) :
          /\ i # j
          /\ loc.tables.dim_product.rows[i].product_id
                = loc.tables.dim_product.rows[j].product_id
          /\ loc.tables.dim_product.rows[i].product_key
                # loc.tables.dim_product.rows[j].product_key

\* the fact row i carries the sales row i: its transaction, its measures and the
\* date key of its date
CarriesSalesRow(sales, fact, i) ==
    /\ fact.rows[i].transaction_id = sales.rows[i].transaction_id
    /\ fact.rows[i].date_key
          = sales.rows[i].transaction_date[1] * 10000
            + sales.rows[i].transaction_date[2] * 100
            + sales.rows[i].transaction_date[3]
    /\ \A c \in {"quantity", "unit_price", "discount", "final_price", "total_amount",
                 "payment_method"} : fact.rows[i][c] = sales.rows[i][c]

\* the key of fact row i is null when the id is in no dimension row, and the key
\* of a dimension row with that id otherwise
KeyNullOrOfId(sales, fact, i, dim, id, key) ==
    IF sales.rows[i][id] \in Ids(dim, id)
    THEN \E j \in 1..NRows(dim) :
            dim.rows[j][id] = sales.rows[i][id] /\ dim.rows[j][key] = fact.rows[i][key]
    ELSE fact.rows[i][key] = NaN

\* C2: a sales row whose product_id (customer_id, store_id) is in no row of the
\* dimension still gets its fact row, with a null product_key (customer_key,
\* store_key) and its other fields resolved as for a matched row; the builder
\* stops with an error only for a missing transaction date, never for an
\* unmatched id.
C2_UnmatchedKeyIsNull ==
    /\ Built("fact_sales") =>
          /\ NRows(loc.tables.fact_sales) = NRows(loc.tables.sales)
          /\ \A i \in 1..NRows(loc.tables.sales) :
                /\ CarriesSalesRow(loc.tables.sales, loc.tables.fact_sales, i)
                /\ KeyNullOrOfId(loc.tables.sales, loc.tables.fact_sales, i,
                                 loc.tables.dim_product, "product_id", "product_key")
                /\ KeyNullOrOfId(loc.tables.sales, loc.tables.fact_sales, i,
                                 loc.tables.dim_customer, "customer_id", "customer_key")
                /\ KeyNullOrOfId(loc.tables.sales, loc.tables.fact_sales, i,
                                 loc.tables.dim_store, "store_id", "store_key")
    /\ pc = "failed" =>
          \E i \in 1..NRows(loc.tables.sales) :
              loc.tables.sales.rows[i].transaction_date = NaT
    /\ (pc \notin {"load", "date_dim", "product_dim", "customer_dim", "store_dim",
                   "sales_fact", "failed"}) => Built("fact_sales")

\* a fact row with a null product_key beside a resolved customer_key, store_key
\* and date_key
C2_Witness ==
    /\ Built("fact_sales")
    /\ \E i \in 1..NRows(loc.tables.fact_sales) :
          /\ loc.tables.sales.rows[i].product_id
                \notin Ids(loc.tables.dim_product, "product_id")
          /\ loc.tables.fact_sales.rows[i].product_key = NaN
          /\ loc.tables.fact_sales.rows[i].customer_key = 1
          /\ loc.tables.fact_sales.rows[i].store_key = 1
          /\ loc.tables.fact_sales.rows[i].date_key = 20230709

\* C3: the product_key of a fact row whose product_id is in the product dimension
\* is the surrogate key of a dimension row with that product_id, and exactly one
\* dimension row has that key; likewise customer_key and store_key.
ResolvesToOneRow(sales, fact, dim, id, key) ==
    \A i \in 1..NRows(sales) :
        sales.rows[i][id] \in Ids(dim, id) =>
            /\ \E j \in 1..NRows(dim) :
                  /\ dim.rows[j][id] = sales.rows[i][id]
                  /\ dim.rows[j][key] = fact.rows[i][key]
            /\ Cardinality({j \in 1..NRows(dim) : dim.rows[j][key] = fact.rows[i][key]}) = 1

C3_MatchedKeyIsDimensionKey ==
    Built("fact_sales") =>
        /\ ResolvesToOneRow(loc.tables.sales, loc.tables.fact_sales,
                            loc.tables.dim_product, "product_id", "product_key")
        /\ ResolvesToOneRow(loc.tables.sales, loc.tables.fact_sales,
                            loc.tables.dim_customer, "customer_id", "customer_key")
        /\ ResolvesToOneRow(loc.tables.sales, loc.tables.fact_sales,
                            loc.tables.dim_store, "store_id", "store_key")

\* products P1, P2 in input order and a sale of P2: product_key 2
C3_Witness ==
    /\ Built("fact_sales")
    /\ Column(loc.tables.products, "product_id") = <<"P1", "P2">>
    /\ \E i \in 1..NRows(loc.tables.sales) :
          /\ loc.tables.sales.rows[i].product_id = "P2"
          /\ loc.tables.fact_sales.rows[i].product_key = 2

\* a is an earlier day than b
Earlier(a, b) ==
    \/ a[1] < b[1]
    \/ a[1] = b[1] /\ a[2] < b[2]
    \/ a[1] = b[1] /\ a[2] = b[2] /\ a[3] < b[3]

\* the date is before the first or after the last day of the date dimension
OutOfRange(d) ==
    /\ d # NaT
    /\ Earlier(d, <<2022, 1, 1>>) \/ Earlier(<<2023, 12, 31>>, d)

DateKeys(date_dim) == ToSet(Column(date_dim, "date_key"))

\* C4 as stated: a sales row dated outside 2022-01-01..2023-12-31 gets a null
\* date reference in its fact row.
C4_OutOfRangeDateIsNull ==
    Built("fact_sales") =>
        \A i \in 1..NRows(loc.tables.sales) :
            OutOfRange(loc.tables.sales.rows[i].transaction_date) =>
                loc.tables.fact_sales.rows[i].date_key = NaN

\* C4 as amended: a sales row dated outside 2022-01-01..2023-12-31 gets the
\* non-null date_key YYYYMMDD of its own date, which is the date_key of no
\* dim_date row (never that of an in-range day).
C4_OutOfRangeDateKeyDangles ==
    Built("fact_sales") =>
        \A i \in 1..NRows(loc.tables.sales) :
            OutOfRange(loc.tables.sales.rows[i].transaction_date) =>
                /\ loc.tables.fact_sales.rows[i].date_key # NaN
                /\ loc.tables.fact_sales.rows[i].date_key
                      = loc.tables.sales.rows[i].transaction_date[1] * 10000
                        + loc.tables.sales.rows[i].transaction_date[2] * 100
                        + loc.tables.sales.rows[i].transaction_date[3]
                /\ loc.tables.fact_sales.rows[i].date_key
                      \notin DateKeys(loc.tables.dim_date)

\* a sale of 2024-01-01, the day after the date dimension's last day
C4_Witness ==
    /\ Built("fact_sales")
    /\ \E i \in 1..NRows(loc.tables.sales) :
          /\ loc.tables.sales.rows[i].transaction_date = <<2024, 1, 1>>
          /\ loc.tables.fact_sales.rows[i].date_key = 20240101

\* C5: in a run of the generator, the cleaner and the builder, every row of
\* fact_sales and of fact_performance has the date_key of some dim_date row.
C5_FactDateKeysInDateDimension ==
    /\ Built("fact_sales") =>
          \A i \in 1..NRows(loc.tables.fact_sales) :
              loc.tables.fact_sales.rows[i].date_key \in DateKeys(loc.tables.dim_date)
    /\ Built("fact_performance") =>
          \A i \in 1..NRows(loc.tables.fact_performance) :
              loc.tables.fact_performance.rows[i].date_key
                  \in DateKeys(loc.tables.dim_date)

\* C6: a performance row with a four-digit year y and a month m in 1..12 gets
\* date_key = y*10000 + m*100 + 1.
C6_PerformanceDateKey ==
    Built("fact_performance") =>
        /\ NRows(loc.tables.fact_performance) = NRows(loc.tables.performance)
        /\ \A i \in 1..NRows(loc.tables.performance) :
              (/\ loc.tables.performance.rows[i].year \in 1000..9999
               /\ loc.tables.performance.rows[i].month \in 1..12) =>
                  loc.tables.fact_performance.rows[i].date_key
                      = loc.tables.performance.rows[i].year * 10000
                        + loc.tables.performance.rows[i].month * 100 + 1

\* year=2022, month=3 gives 20220301
C6_Witness ==
    /\ Built("fact_performance")
    /\ \E i \in 1..NRows(loc.tables.performance) :
          /\ loc.tables.performance.rows[i].year = 2022
          /\ loc.tables.performance.rows[i].month = 3
          /\ loc.tables.fact_performance.rows[i].date_key = 20220301

\* the calendar days from 2022-01-01 to 2023-12-31
CalendarDays ==
    {d \in (start_date[1]..end_date[1]) \X (1..12) \X (1..31) : d[3] <= DaysInMonth(d[1], d[2])}

\* C7: the date dimension has one row per calendar day of 2022-01-01..2023-12-31,
\* in calendar order, with date_id 1..N in that order and date_key the integer
\* YYYYMMDD; each row is an earlier day than the next and has the smaller
\* date_id and date_key, so of any two rows the earlier day has the smaller
\* date_id and date_key, and date_key is unique.
C7_DateDimension ==
    Built("dim_date") =>
        LET t == loc.tables.dim_date
        IN  /\ NRows(t) = Cardinality(CalendarDays)
            /\ ToSet(Column(t, "date")) = CalendarDays
            /\ t.rows[1].date = <<2022, 1, 1>>
            /\ t.rows[NRows(t)].date = <<2023, 12, 31>>
            /\ \A i \in 1..NRows(t) :
                  /\ t.rows[i].date_id = i
                  /\ t.rows[i].date_key
                        = t.rows[i].date[1] * 10000 + t.rows[i].date[2] * 100
                          + t.rows[i].date[3]
            /\ \A i \in 1..(NRows(t) - 1) :
                  /\ Earlier(t.rows[i].date, t.rows[i + 1].date)
                  /\ t.rows[i].date_id < t.rows[i + 1].date_id
                  /\ t.rows[i].date_key < t.rows[i + 1].date_key

\* the date dimension as built: 730 rows, the last one 2023-12-31 with key 20231231
C7_Witness ==
    /\ Built("dim_date")
    /\ NRows(loc.tables.dim_date) = 730
    /\ loc.tables.dim_date.rows[730].date_key = 20231231
    /\ loc.tables.dim_date.rows[59].date = <<2022, 2, 28>>
    /\ loc.tables.dim_date.rows[60].date = <<2022, 3, 1>>

\* the natural id -> surrogate key map of a dimension reaches each of the
\* dimension's surrogate keys from exactly one natural id
KeyMapBijective(dim, id, key) ==
    LET map == dict_zip(Column(dim, id), Column(dim, key))
    IN  \A k \in ToSet(Column(dim, key)) :
            Cardinality({n \in DOMAIN map : map[n] = k}) = 1

\* C8: for each of the product, customer and store dimensions, the map from
\* natural id to surrogate key used to resolve fact rows is a bijection between
\* the dimension's natural ids and its surrogate keys.
C8_KeyMapBijection ==
    Built("fact_sales") =>
        /\ KeyMapBijective(loc.tables.dim_product, "product_id", "product_key")
        /\ KeyMapBijective(loc.tables.dim_customer, "customer_id", "customer_key")
        /\ KeyMapBijective(loc.tables.dim_store, "store_id", "store_key")

\* C9: a second run of the builder on the same five input tables builds the same
\* six tables as the first: before its first write, each table in memory is
\* the table the artifact left by the run before holds.
C9_RerunBuildsSameTables ==
    (run > 1 /\ pc = "save" /\ loc.written = 0) =>
        \A a \in ToSet(Artifacts) :
            /\ star_schema[a].exists
            /\ star_schema[a].lines = to_csv(loc.tables[a])

\* a second run that has built its tables from two products and two sales
C9_Witness ==
    /\ run = 2
    /\ pc = "save"
    /\ loc.written = 0
    /\ NRows(loc.tables.dim_product) = 2
    /\ NRows(loc.tables.fact_sales) = 2
    /\ loc.tables.fact_sales.rows[2].product_key = 2

\* C10: read back by the dashboard, each of the six artifacts has the number of
\* rows and the set of column names of the table save_star_schema wrote.
C10_RoundTripRowsAndColumns ==
    (pc = "done" /\ dash.loaded /\ dash.run = run) =>
        \A a \in ToSet(Artifacts) :
            /\ NRows(dash.tables[a]) = NRows(loc.tables[a])
            /\ ToSet(dash.tables[a].cols) = ToSet(loc.tables[a].cols)

\* the dashboard has read a schema whose fact_sales has a row with a null key
C10_Witness ==
    /\ pc = "done"
    /\ dash.loaded
    /\ dash.run = run
    /\ NRows(dash.tables.dim_date) = 730
    /\ \E i \in 1..NRows(loc.tables.fact_sales) :
          loc.tables.fact_sales.rows[i].product_key = NaN

\* C11: save_star_schema replaces the six artifacts one at a time in the order
\* dim_date, dim_product, dim_customer, dim_store, fact_sales, fact_performance:
\* a step changes the artifacts only as the next write of a save, which puts the
\* run's table in place of the next artifact and leaves the others as they
\* were; so after k writes, also when the run has stopped there, the first k
\* artifacts hold the run's tables and the others what was there before.
C11_SaveReplacesOneByOne ==
    [][
        /\ star_schema' # star_schema =>
             /\ pc = "save" /\ pc' = "save"
             /\ loc.written < Len(Artifacts)
             /\ loc'.written = loc.written + 1
             /\ loc'.tables = loc.tables
             /\ \A a \in ToSet(Artifacts) :
                   star_schema'[a] = IF a = Artifacts[loc.written + 1]
                                     THEN File(to_csv(loc.tables[a]))
                                     ELSE star_schema[a]
        /\ pc' \in {"save", "crashed"} =>
             \A k \in 1..loc'.written :
                 star_schema'[Artifacts[k]] = File(to_csv(loc'.tables[Artifacts[k]]))
        /\ pc' = "crashed" =>
             (loc'.written < Len(Artifacts) /\ star_schema' = star_schema)
    ]_vars

\* a second run stopped after its second write: dim_product holds its two
\* products, fact_sales still the unresolved product_key of the build before
C11_Witness ==
    /\ pc = "crashed"
    /\ run = 2
    /\ loc.written = 2
    /\ star_schema.dim_product = File(to_csv(loc.tables.dim_product))
    /\ NRows(loc.tables.dim_product) = 2
    /\ loc.tables.fact_sales.rows[1].product_key = 2
    /\ star_schema.fact_sales.exists
    /\ read_csv(star_schema.fact_sales.lines).rows[1].product_key = NaN

\* C12: a run of the builder that starts with one of the five processed files
\* absent fails at its load step with no table built, and from then until the
\* script is run again nothing changes: no artifact is created or overwritten,
\* whatever the runs before left on disk.
C12_MissingInputAborts ==
    [][
        /\ (pc = "load" /\ load_processed_data_raises(processed)) =>
             /\ pc' = "failed"
             /\ loc.tables = NoLocals /\ loc' = loc
             /\ star_schema' = star_schema
        /\ (pc = "failed" /\ run' = run) =>
             /\ pc' = "failed"
             /\ loc' = loc
             /\ star_schema' = star_schema
    ]_vars

\* a second run aborted for the missing sales file, with the six artifacts of
\* the first run still on disk
C12_Witness ==
    /\ pc = "failed"
    /\ run = 2
    /\ ~processed.sales.exists
    /\ loc.tables = NoLocals
    /\ \A a \in ToSet(Artifacts) : star_schema[a].exists
    /\ NRows(read_csv(star_schema.fact_sales.lines)) = 1

\* the sales rows of sales.csv whose transaction date is no date
Unparseable(raw_sales) ==
    {i \in 1..NRows(raw_sales) : to_datetime_coerce(raw_sales.rows[i].transaction_date) = NaT}

\* C13: a sales row whose transaction date cannot be parsed makes no stage
\* raise: the cleaner writes it with a null date, the builder does not fail and
\* its fact row for it has a null date_key.
C13_UnparseableDateNeverRaises ==
    LET raw_sales == read_csv(sample_data.sales.lines)
    IN  /\ pc # "failed"
        /\ processed.sales.exists =>
              \A i \in Unparseable(raw_sales) :
                  read_csv(processed.sales.lines).rows[i].transaction_date = NaT
        /\ pc \in {"performance_fact", "save", "done"} =>
              /\ NRows(loc.tables.fact_sales) = NRows(raw_sales)
              /\ \A i \in Unparseable(raw_sales) :
                    loc.tables.fact_sales.rows[i].date_key = NaN

\* C14: the sales fact has one row per sales row, in the order of the sales
\* rows, and the row at position i has sales_key i, whether its product,
\* customer and store keys are resolved or null.
C14_SalesKeyIsRowPosition ==
    Built("fact_sales") =>
        /\ NRows(loc.tables.fact_sales) = NRows(loc.tables.sales)
        /\ \A i \in 1..NRows(loc.tables.fact_sales) :
              /\ loc.tables.fact_sales.rows[i].sales_key = i
              /\ loc.tables.fact_sales.rows[i].transaction_id
                    = loc.tables.sales.rows[i].transaction_id
        /\ ToSet(Column(loc.tables.fact_sales, "sales_key"))
              = 1..NRows(loc.tables.sales)
        /\ loc.tables.fact_sales.cols[1] = "sales_key"

\* two sales rows, the second of a product that is in no dimension row: its
\* fact row is the second and has sales_key 2
C14_Witness ==
    /\ Built("fact_sales")
    /\ NRows(loc.tables.sales) = 2
    /\ loc.tables.fact_sales.rows[1].product_key = 1
    /\ loc.tables.fact_sales.rows[2].product_key = NaN
    /\ loc.tables.fact_sales.rows[2].sales_key = 2
    /\ loc.tables.fact_sales.rows[2].transaction_id = <<"T", 2>>

\* a build has made its tables and written none yet, and the artifact of the
\* dimension is there from a build before
RebuiltOver(artifact) ==
    /\ run > 1 /\ pc = "save" /\ loc.written = 0
    /\ star_schema[artifact].exists

KeysOnDisk(artifact, key) == ToSet(Column(read_csv(star_schema[artifact].lines), key))

KeysBuilt(dim, key) == ToSet(Column(loc.tables[dim], key))

\* the keys of a rebuilt dimension are none of the keys of the build before it
\* when the two have different numbers of rows
NoKeyReused(dim, key) ==
    (RebuiltOver(dim) /\ Cardinality(KeysOnDisk(dim, key)) # NRows(loc.tables[dim])) =>
        KeysOnDisk(dim, key) \cap KeysBuilt(dim, key) = {}

\* both builds number their rows from 1: the keys of the one with fewer rows
\* are all keys of the other
KeysRestartAtOne(dim, key) ==
    RebuiltOver(dim) =>
        /\ KeysBuilt(dim, key) = 1..NRows(loc.tables[dim])
        /\ KeysOnDisk(dim, key) = 1..NRows(read_csv(star_schema[dim].lines))
        /\ \/ KeysOnDisk(dim, key) \subseteq KeysBuilt(dim, key)
           \/ KeysBuilt(dim, key) \subseteq KeysOnDisk(dim, key)

\* C15 as stated: across two rebuilds whose dimension tables have different
\* numbers of rows, no surrogate key of the first build is assigned again in the
\* second.
C15_NoKeyReusedAcrossRebuilds ==
    /\ NoKeyReused("dim_product", "product_key")
    /\ NoKeyReused("dim_customer", "customer_key")
    /\ NoKeyReused("dim_store", "store_key")

\* C15 as amended: every build assigns the keys 1..N of its own N rows, so of two
\* rebuilds with N1 and N2 rows the keys 1..min(N1, N2) are assigned in both.
C15_KeysRestartEveryBuild ==
    /\ KeysRestartAtOne("dim_product", "product_key")
    /\ KeysRestartAtOne("dim_customer", "customer_key")
    /\ KeysRestartAtOne("dim_store", "store_key")

\* a rebuild with two products over the artifact of a build with one product:
\* product_key 1 is in both
C15_Witness ==
    /\ RebuiltOver("dim_product")
    /\ KeysOnDisk("dim_product", "product_key") = {1}
    /\ KeysBuilt("dim_product", "product_key") = {1, 2}

\* the steps of main in the order of its code, and the table each one makes
Steps == <<"load", "date_dim", "product_dim", "customer_dim", "store_dim",
           "sales_fact", "performance_fact", "save", "done">>

StepNo(p) == CHOOSE k \in 1..Len(Steps) : Steps[k] = p

MadeAt(t) ==
    CASE t = "dim_date" -> "date_dim"
      [] t = "dim_product" -> "product_dim"
      [] t = "dim_customer" -> "customer_dim"
      [] t = "dim_store" -> "store_dim"
      [] t = "fact_sales" -> "sales_fact"
      [] t = "fact_performance" -> "performance_fact"
      [] OTHER -> "load"

\* the step the run is at raises
StepRaises ==
    \/ pc = "load" /\ load_processed_data_raises(processed)
    \/ pc = "sales_fact" /\ create_sales_fact_raises(loc.tables.sales)

\* C16: within one invocation of main the steps run in the order load, the four
\* dimensions, the two facts, save: the run moves only from a step to the next
\* one, a table is made only at its step and only once, a step that raises ends
\* the run, an ended run does nothing more, and artifacts are written only in
\* the save step.
C16_StepsInOrderOnce ==
    [][
        run' = run =>
            /\ (pc' # pc /\ pc' \in ToSet(Steps)) =>
                  (pc \in ToSet(Steps) /\ StepNo(pc') = StepNo(pc) + 1 /\ ~StepRaises)
            /\ (pc' # pc /\ pc' = "failed") => StepRaises
            /\ StepRaises => (pc' = "failed" /\ loc' = loc)
            /\ pc \in {"failed", "crashed", "done"} =>
                  (pc' = pc /\ loc' = loc /\ star_schema' = star_schema)
            /\ \A t \in Tables :
                  loc'.tables[t] # loc.tables[t] =>
                      (pc = MadeAt(t) /\ loc.tables[t] = NoTable)
            /\ star_schema' # star_schema => (pc = "save" /\ pc' = "save")
            /\ loc'.written # loc.written => loc'.written = loc.written + 1
    ]_vars

\* a run that failed at the sales fact, after the four dimensions were built:
\* no fact table, and no artifact written
C16_Witness ==
    /\ pc = "failed"
    /\ run = 1
    /\ Built("dim_store")
    /\ ~Built("fact_sales")
    /\ ~Built("fact_performance")
    /\ \A a \in ToSet(Artifacts) : ~star_schema[a].exists

\* C17: no stage writes the files of a stage before it: the sample-data files
\* change only in the generator's run, the processed files only in the
\* cleaner's run, the star-schema artifacts only in the builder's save; the
\* cleaner leaves the sample data, the builder the processed files and the
\* sample data, and the dashboard's load and prepare all three as they are.
C17_NoStageWritesUpstream ==
    [][
        /\ sample_data' # sample_data => pc = "generate"
        /\ processed' # processed => pc = "clean"
        /\ star_schema' # star_schema => pc = "save"
        /\ dash' # dash =>
              (star_schema' = star_schema /\ processed' = processed
                 /\ sample_data' = sample_data)
    ]_vars

\* all four stages have run: the dashboard holds its joined data, and each of
\* the three directories holds its own files
C17_Witness ==
    /\ pc = "done"
    /\ dash.stage = "prepared"
    /\ NRows(dash.prepared.sales_data) >= 1
    /\ sample_data.sales.lines[1] = [j \in 1..Len(RawSalesCols) |-> <<RawSalesCols[j]>>]
    /\ processed.sales.lines[1] = [j \in 1..Len(SalesCols) |-> <<SalesCols[j]>>]
    /\ star_schema.fact_sales.lines = to_csv(loc.tables.fact_sales)

\* the column names in the header line of a CSV file
HeaderOf(file) == {file.lines[1][j][1] : j \in 1..Len(file.lines[1])}

\* the key of every join of joins is a column of the fact's file and of the
\* dimension's file
JoinKeysOnDisk(fact, joins) ==
    \A n \in 1..Len(joins) :
        /\ joins[n][2] \in HeaderOf(star_schema[fact])
        /\ joins[n][2] \in HeaderOf(star_schema[joins[n][1]])

\* C18: in the six artifacts a finished build has written, every key the
\* dashboard joins on is a column of both sides: date_key, product_key,
\* customer_key and store_key of fact_sales and of their dimensions, date_key and
\* product_key of fact_performance and of theirs; and prepare_dashboard_data on
\* the loaded artifacts does not fail in any of its six joins: it ends with
\* sales_data and performance_data, one row for each fact row.
C18_JoinKeysPresent ==
    /\ pc = "done" =>
          /\ JoinKeysOnDisk("fact_sales", SalesJoins)
          /\ JoinKeysOnDisk("fact_performance", PerformanceJoins)
    /\ dash.stage # "failed"
    /\ dash.stage = "prepared" =>
          /\ ~prepare_dashboard_data_raises(dash.tables)
          /\ NRows(dash.prepared.sales_data) >= NRows(dash.tables.fact_sales)
          /\ NRows(dash.prepared.performance_data) >= NRows(dash.tables.fact_performance)
          /\ {"date_key", "product_key", "customer_key", "store_key"}
                \subseteq ToSet(dash.prepared.sales_data.cols)
          /\ {"date_key", "product_key"} \subseteq ToSet(dash.prepared.performance_data.cols)

\* the dashboard has joined two sales rows and two performance rows to the
\* dimensions, with the country of the customer and of the store side by side
C18_Witness ==
    /\ pc = "done"
    /\ dash.stage = "prepared"
    /\ NRows(dash.prepared.sales_data) = 2
    /\ NRows(dash.prepared.performance_data) = 2
    /\ dash.prepared.sales_data.rows[2].product_id = "P2"
    /\ dash.prepared.sales_data.rows[2].store_id = "S1"
    /\ {"country_x", "country_y"} \subseteq ToSet(dash.prepared.sales_data.cols)

\* the sales table the generator has written
GeneratedSales == read_csv(sample_data.sales.lines)

\* C19: the generated sales table has at most one row for a pair
\* (transaction_id, product_id): the products of one transaction are pairwise
\* distinct, and no transaction_id is the id of two transactions, so that the
\* table holds as many transaction ids as transactions were generated.
C19_OneRowPerTransactionProduct ==
    sample_data.sales.exists =>
        LET sales == GeneratedSales
        IN  /\ \A i, j \in 1..NRows(sales) :
                  (/\ sales.rows[i].transaction_id = sales.rows[j].transaction_id
                   /\ sales.rows[i].product_id = sales.rows[j].product_id) => i = j
            /\ Cardinality(ToSet(Column(sales, "transaction_id"))) = NumTransactions

\* two transactions have been generated, the first with two products, and one
\* product is sold in both
C19_Witness ==
    /\ sample_data.sales.exists
    /\ LET sales == GeneratedSales
       IN  /\ NRows(sales) = 4
           /\ sales.rows[1].transaction_id = TransactionIdOf(1)
           /\ sales.rows[2].transaction_id = TransactionIdOf(1)
           /\ sales.rows[1].product_id # sales.rows[2].product_id
           /\ sales.rows[3].transaction_id = TransactionIdOf(2)
           /\ sales.rows[3].product_id = sales.rows[1].product_id

\* the total of a sales row is its final price times its quantity, and the
\* quantity is one of 1..5
AmountsAgree(t) ==
    \A i \in 1..NRows(t) :
        /\ t.rows[i].quantity \in 1..5
        /\ t.rows[i].total_amount = t.rows[i].final_price * t.rows[i].quantity

\* C20: every row of the generated sales table has a quantity between 1 and 5
\* and total_amount = final_price x quantity, the amounts counted in
\* hundredths; so has every row of the cleaned sales table and of the
\* fact_sales table built and saved from it, which has one row for each
\* generated row.
C20_TotalIsFinalPriceTimesQuantity ==
    /\ sample_data.sales.exists => AmountsAgree(GeneratedSales)
    /\ processed.sales.exists => AmountsAgree(read_csv(processed.sales.lines))
    /\ loc.tables.fact_sales # NoTable =>
          /\ AmountsAgree(loc.tables.fact_sales)
          /\ NRows(loc.tables.fact_sales) = NRows(GeneratedSales)
    /\ star_schema.fact_sales.exists =>
          /\ AmountsAgree(read_csv(star_schema.fact_sales.lines))
          /\ NRows(read_csv(star_schema.fact_sales.lines)) = NRows(GeneratedSales)

\* the saved fact table carries a sale of 5 pieces at 19.99 with 15 percent off:
\* 16.99 each, 84.95 in all
C20_Witness ==
    /\ pc = "done"
    /\ LET r == read_csv(star_schema.fact_sales.lines).rows[1]
       IN  /\ r.quantity = 5
           /\ r.unit_price = 1999
           /\ r.discount = 15
           /\ r.final_price = 1699
           /\ r.total_amount = 8495

\* the five tables the generator has written
Generated == [n \in ToSet(Inputs) |-> read_csv(sample_data[n].lines)]

\* no row of fact has a missing value in any of the columns keys
NoNullKey(fact, keys) ==
    \A i \in 1..NRows(fact) : \A k \in keys : fact.rows[i][k] # NaN

\* C21: in the tables the generator has written, the product_id, customer_id and
\* store_id of every sales row and the product_id of every performance row is
\* the id of a row of the products, customers or stores table; and in the
\* facts the builder makes and saves of them no row has a null product_key,
\* customer_key or store_key.
C21_GeneratedIdsResolve ==
    /\ sample_data.sales.exists =>
          LET g == Generated
          IN  /\ \A i \in 1..NRows(g.sales) :
                    /\ g.sales.rows[i].product_id \in Ids(g.products, "product_id")
                    /\ g.sales.rows[i].customer_id \in Ids(g.customers, "customer_id")
                    /\ g.sales.rows[i].store_id \in Ids(g.stores, "store_id")
              /\ \A i \in 1..NRows(g.performance) :
                    g.performance.rows[i].product_id \in Ids(g.products, "product_id")
    /\ Built("fact_sales") =>
          NoNullKey(loc.tables.fact_sales, {"product_key", "customer_key", "store_key"})
    /\ Built("fact_performance") =>
          NoNullKey(loc.tables.fact_performance, {"product_key"})
    /\ star_schema.fact_sales.exists =>
          NoNullKey(read_csv(star_schema.fact_sales.lines),
                    {"product_key", "customer_key", "store_key"})
    /\ star_schema.fact_performance.exists =>
          NoNullKey(read_csv(star_schema.fact_performance.lines), {"product_key"})

\* a finished pipeline run whose second sale is of the second product, with the
\* performance rows of both products
C21_Witness ==
    /\ pc = "done"
    /\ Generated.sales.rows[2].product_id = ProductIdOf[2]
    /\ read_csv(star_schema.fact_sales.lines).rows[2].product_key = 2
    /\ read_csv(star_schema.fact_sales.lines).rows[2].customer_key = 1
    /\ read_csv(star_schema.fact_sales.lines).rows[2].store_key = 1
    /\ NRows(loc.tables.fact_performance) = 48
    /\ loc.tables.fact_performance.rows[48].product_key = 2

\* the months from 2022-01 to 2023-12
Months == (START_DATE[1]..END_DATE[1]) \X (1..12)

\* the rows of t whose column c holds v
RowsWith(t, c, v) == {i \in 1..NRows(t) : t.rows[i][c] = v}

\* C22: on generated data the generated performance table has exactly one row
\* for each product and each month from 2022-01 to 2023-12, and so has
\* fact_performance: 24 rows per product, exactly one for each pair of a
\* product_key and the date_key of the first day of a month, hence no two rows
\* with the same (product_key, date_key); and that date_key is the date_key of
\* exactly one dim_date row, the row of the first day of the month.
C22_OnePerformanceRowPerProductMonth ==
    /\ sample_data.performance.exists =>
          LET g == read_csv(sample_data.performance.lines)
          IN  /\ NRows(g) = 24 * NumProducts
              /\ \A p \in 1..NumProducts : \A ym \in Months :
                    Cardinality({i \in RowsWith(g, "product_id", ProductIdOf[p]) :
                                    g.rows[i].year_month = strftime_Ym(ym)}) = 1
    /\ Built("fact_performance") =>
          LET f == loc.tables.fact_performance
              d == loc.tables.dim_date
          IN  /\ NRows(f) = 24 * NumProducts
              /\ NRows(loc.tables.dim_product) = NumProducts
              /\ \A p \in 1..NumProducts : \A ym \in Months :
                    Cardinality({i \in RowsWith(f, "product_key", p) :
                                    f.rows[i].date_key = ym[1] * 10000 + ym[2] * 100 + 1}) = 1
              /\ \A i, j \in 1..NRows(f) :
                    (/\ f.rows[i].product_key = f.rows[j].product_key
                     /\ f.rows[i].date_key = f.rows[j].date_key) => i = j
              /\ \A ym \in Months :
                    LET at == RowsWith(d, "date_key", ym[1] * 10000 + ym[2] * 100 + 1)
                    IN  /\ Cardinality(at) = 1
                        /\ \A k \in at : d.rows[k].date = <<ym[1], ym[2], 1>>

\* the fact built of the generated performance rows: 24 rows for the first
\* product, then those of the second, the 13th row of each for January 2023
C22_Witness ==
    /\ Built("fact_performance")
    /\ loc.tables.fact_performance.rows[13].product_key = 1
    /\ loc.tables.fact_performance.rows[13].date_key = 20230101
    /\ loc.tables.fact_performance.rows[24].date_key = 20231201
    /\ loc.tables.fact_performance.rows[25].product_key = 2
    /\ loc.tables.fact_performance.rows[25].date_key = 20220101
    /\ loc.tables.dim_date.rows[366].date_key = 20230101

\* no cell of a column the cleaner fills is missing in the processed file
NoMissingIn(file) ==
    LET t == read_csv(file.lines)
    IN  \A c \in DOMAIN FillDefaults \cap ToSet(t.cols) :
            \A i \in 1..NRows(t) : t.rows[i][c] # NaN

\* C23: in the five files the cleaner has written, no cell of a column it fills
\* (quantity, discount, warranty_years, weight_kg, stock_quantity,
\* lifetime_value, size_sqm and the five performance measures) is missing,
\* whatever the cell of the sample-data file held: a number, nothing, or a text
\* that is no number.
C23_FilledColumnsNeverMissing ==
    \A n \in ToSet(Inputs) : processed[n].exists => NoMissingIn(processed[n])

\* the rows of dim with the natural id v, in input order
RowsOfId(dim, id, v) == {j \in 1..NRows(dim) : dim.rows[j][id] = v}

\* row i of fact is made of row i of src: its key is the key of the last row of
\* dim with the id of the source row, and no row of fact has the key of a row of
\* dim that a later row of dim repeats the id of
ResolvesToLastRow(src, fact, dim, id, key) ==
    /\ \A i \in 1..NRows(src) :
          RowsOfId(dim, id, src.rows[i][id]) # {} =>
              fact.rows[i][key] = dim.rows[Max(RowsOfId(dim, id, src.rows[i][id]))][key]
    /\ \A j \in 1..NRows(dim) :
          j # Max(RowsOfId(dim, id, dim.rows[j][id])) =>
              \A i \in 1..NRows(fact) : fact.rows[i][key] # dim.rows[j][key]

\* C24: when a dimension has several rows with one natural id, every fact row
\* that refers to the id has the surrogate key of the last of them in input
\* order, and the surrogate key of an earlier one is the key of no fact row; for
\* the three dimensions of fact_sales and for the product dimension of
\* fact_performance.
C24_DuplicateIdResolvesToLastRow ==
    /\ Built("fact_sales") =>
          /\ NRows(loc.tables.fact_sales) = NRows(loc.tables.sales)
          /\ ResolvesToLastRow(loc.tables.sales, loc.tables.fact_sales,
                               loc.tables.dim_product, "product_id", "product_key")
          /\ ResolvesToLastRow(loc.tables.sales, loc.tables.fact_sales,
                               loc.tables.dim_customer, "customer_id", "customer_key")
          /\ ResolvesToLastRow(loc.tables.sales, loc.tables.fact_sales,
                               loc.tables.dim_store, "store_id", "store_key")
    /\ Built("fact_performance") =>
          /\ NRows(loc.tables.fact_performance) = NRows(loc.tables.performance)
          /\ ResolvesToLastRow(loc.tables.performance, loc.tables.fact_performance,
                               loc.tables.dim_product, "product_id", "product_key")

\* the product dimension has two rows of P1, with keys 1 and 2, and the sale and
\* the performance row of P1 have product_key 2
C24_Witness ==
    /\ Built("fact_performance")
    /\ Column(loc.tables.dim_product, "product_id") = <<"P1", "P1">>
    /\ Column(loc.tables.dim_product, "product_key") = <<1, 2>>
    /\ loc.tables.sales.rows[1].product_id = "P1"
    /\ loc.tables.fact_sales.rows[1].product_key = 2
    /\ loc.tables.performance.rows[1].product_id = "P1"
    /\ loc.tables.fact_performance.rows[1].product_key = 2

\* the k-th month from START_DATE on, as <<year, month>>
MonthNo(k) == <<START_DATE[1] + ((k - 1) \div 12), ((k - 1) % 12) + 1>>

\* C25: in the loop over the months of a product current_date is always the first
\* day of a month; an iteration emits the row of that month and moves
\* current_date to a later day, from December of year y to January of y + 1 and
\* from any other month to the next month of the year; the loop is left with
\* current_date at 2024-01-01, the first month after END_DATE, when the
\* product's rows are the 24 months from 2022-01 to 2023-12, each once, in
\* increasing order; and the loop of every product is left.
C25_MonthLoopTerminates ==
    /\ [][
           /\ pc = "performance_while" =>
                 /\ gen.current_date[3] = 1
                 /\ gen.current_date[2] \in 1..12
           /\ (pc = "performance_while" /\ pc' = "performance_while") =>
                 /\ Earlier(gen.current_date, gen.current_date')
                 /\ gen.current_date[2] = 12 =>
                       gen.current_date' = <<gen.current_date[1] + 1, 1, 1>>
                 /\ gen.current_date[2] # 12 =>
                       gen.current_date' = <<gen.current_date[1], gen.current_date[2] + 1, 1>>
                 /\ Len(gen.performance') = Len(gen.performance) + 1
                 /\ gen.performance'[Len(gen.performance')].year_month
                       = strftime_Ym(gen.current_date)
           /\ (pc = "performance_while" /\ pc' = "performance_for") =>
                 /\ gen.current_date = <<END_DATE[1] + 1, 1, 1>>
                 /\ Len(gen.performance) = 24 * gen.product
                 /\ \A k \in 1..24 :
                       LET row == gen.performance[24 * (gen.product - 1) + k]
                       IN  /\ row.product_id = ProductIdOf[gen.product]
                           /\ row.year_month = strftime_Ym(MonthNo(k))
       ]_vars
    /\ (pc = "performance_while") ~> (pc = "performance_for")
    /\ <>(pc = "generated")

\* the loop of the second product has reached December 2023, its 24th month
C25_Witness ==
    /\ pc = "performance_while"
    /\ gen.product = 2
    /\ gen.current_date = <<2023, 12, 1>>
    /\ Len(gen.performance) = 47
    /\ gen.performance[47].year_month = strftime_Ym(<<2023, 11>>)

\* the natural id columns
IdCols == {"product_id", "customer_id", "store_id", "transaction_id"}

\* a cell the cleaner has nothing to coerce or fill in
WellFormed(c, v) ==
    IF c \in IntCols THEN v \notin {NaN, NotANumber}
    ELSE IF c \in DateCols THEN v # NaT /\ IsDate(v)
    ELSE TRUE

\* out has the rows of raw in raw's order: as many rows, row i with the ids of
\* row i of raw, and with every cell of it that is a number, a date or a text
SameRowsInOrder(raw, out) ==
    /\ NRows(out) = NRows(raw)
    /\ ToSet(raw.cols) \subseteq ToSet(out.cols)
    /\ \A i \in 1..NRows(raw) : \A c \in ToSet(raw.cols) :
          (c \in IdCols \/ WellFormed(c, raw.rows[i][c])) =>
              out.rows[i][c] = raw.rows[i][c]

\* every processed file there is holds the rows of its sample-data file in the
\* same order and with the same ids, and the builder numbers the dimension rows
\* by their position in the sample-data file
CleanedFilesKeepRowsAndIds ==
    /\ \A n \in ToSet(Inputs) :
          processed[n].exists =>
              SameRowsInOrder(read_csv(sample_data[n].lines), read_csv(processed[n].lines))
    /\ Built("dim_product") =>
          \A i \in 1..NRows(loc.tables.dim_product) :
              /\ loc.tables.dim_product.rows[i].product_key = i
              /\ loc.tables.dim_product.rows[i].product_id
                    = read_csv(sample_data.products.lines).rows[i].product_id
    /\ Built("dim_customer") =>
          \A i \in 1..NRows(loc.tables.dim_customer) :
              /\ loc.tables.dim_customer.rows[i].customer_key = i
              /\ loc.tables.dim_customer.rows[i].customer_id
                    = read_csv(sample_data.customers.lines).rows[i].customer_id

\* C26: each of the five cleaning functions returns a table with the rows of
\* its input in the same order, none dropped, added or moved, whether or not a
\* row has missing or uncoercible cells, and with the product_id, customer_id,
\* store_id and transaction_id it had: once the cleaner has run on five
\* sample-data files, each has its processed file with these rows, and the
\* surrogate key the builder gives a dimension row is the position of the row
\* in the sample-data file.
C26_CleaningKeepsRowsAndIds ==
    /\ pc # "clean" => \A n \in ToSet(Inputs) : processed[n].exists
    /\ CleanedFilesKeepRowsAndIds

\* one column that each dimension gives the joined frame, by the key of the join
AttributeOf == [date_key |-> "year", product_key |-> "category",
                customer_key |-> "country_x", store_key |-> "country_y"]

\* joined has the rows of fact, one for one and in order; a row whose key is the
\* key of a dimension row has that row's attribute, every other row a missing one
KeepsFactRows(fact, joined, joins) ==
    /\ NRows(joined) = NRows(fact)
    /\ \A i \in 1..NRows(fact) :
          /\ \A c \in ToSet(fact.cols) : joined.rows[i][c] = fact.rows[i][c]
          /\ \A n \in 1..Len(joins) :
                LET key == joins[n][2]
                    dim == dash.tables[joins[n][1]]
                    hits == RowsWith(dim, key, fact.rows[i][key])
                IN  /\ Cardinality(hits) <= 1
                    /\ hits = {} => IsNull(AttributeOf[key], joined.rows[i][AttributeOf[key]])

\* C27: the frames prepare_dashboard_data makes of artifacts the builder wrote
\* keep every fact row exactly once: sales_data has the rows of fact_sales and
\* performance_data those of fact_performance, one for one; no key occurs twice
\* in its dimension; a fact row whose key is null or is no key of the dimension
\* is kept, with the dimension's attributes missing.
C27_PrepareKeepsEveryFactRow ==
    dash.stage = "prepared" =>
        /\ KeepsFactRows(dash.tables.fact_sales, dash.prepared.sales_data, SalesJoins)
        /\ KeepsFactRows(dash.tables.fact_performance, dash.prepared.performance_data,
                         PerformanceJoins)

\* the frames are made of a sales fact with a null product_key: it is a row of
\* sales_data, at its place and without a category, and sales_data has no other
\* rows than those of fact_sales
C27_Witness ==
    /\ dash.stage = "prepared"
    /\ NRows(dash.prepared.sales_data) = NRows(dash.tables.fact_sales)
    /\ \E i \in 1..NRows(dash.tables.fact_sales) :
          /\ dash.tables.fact_sales.rows[i].product_key = NaN
          /\ dash.prepared.sales_data.rows[i].transaction_id
                = dash.tables.fact_sales.rows[i].transaction_id
          /\ dash.prepared.sales_data.rows[i].category = NaText

\* the callback has returned its outputs for the selection dash.selected
Updated == dash.calls > 0 /\ ~dash.raised

\* what update_dashboard returns for the frames of the dashboard
OutputsFor(categories, countries, years) ==
    update_dashboard(dash.prepared.sales_data, dash.prepared.performance_data,
                     categories, countries, years)

PerformanceOutputs(o) ==
    <<o.avg_satisfaction, o.performance_metrics, o.energy_satisfaction, o.failure_rate>>

SalesOutputs(o) == <<o.total_sales, o.sales_trend, o.category_sales, o.country_sales>>

\* C28: the average customer satisfaction and the performance-metrics,
\* energy-versus-satisfaction and failure-rate charts that update_dashboard
\* returns are the same for every selection of countries: they are those of the
\* same categories and years with any other countries selected.
C28_PerformanceOutputsIgnoreCountry ==
    Updated =>
        \A countries \in SUBSET Countries :
            PerformanceOutputs(OutputsFor(dash.selected.categories, countries,
                                          dash.selected.years))
                = PerformanceOutputs(dash.outputs)

\* the callback has returned for a selection such that each filter alone, with
\* another selection, changes the total sales and the three sales charts, and
\* such that another selection of countries leaves the performance outputs as
\* they are
C28_Witness ==
    /\ Updated
    /\ dash.outputs.avg_satisfaction # NotAvailable
    /\ \E categories \in SUBSET Categories, countries \in SUBSET Countries,
          years \in SUBSET Years :
          LET by_category == OutputsFor(categories, dash.selected.countries,
                                        dash.selected.years)
              by_country == OutputsFor(dash.selected.categories, countries,
                                       dash.selected.years)
              by_year == OutputsFor(dash.selected.categories, dash.selected.countries,
                                    years)
              differ(o) == \A k \in 1..4 : SalesOutputs(o)[k] # SalesOutputs(dash.outputs)[k]
          IN  /\ differ(by_category)
              /\ differ(by_country)
              /\ differ(by_year)
              /\ countries # dash.selected.countries
              /\ PerformanceOutputs(by_country) = PerformanceOutputs(dash.outputs)

\* the sales rows whose category, store country and year are selected
SelectedSales ==
    SelectSeq(dash.prepared.sales_data.rows,
              LAMBDA r : /\ r.category \in dash.selected.categories
                         /\ r.country_y \in dash.selected.countries
                         /\ r.year \in dash.selected.years)

\* C29: the sales rows update_dashboard keeps are the rows whose category,
\* store country and year are each in the selection of its filter. With an
\* empty selection in any filter the call returns, the total sales are "$0.00"
\* and the profit margin is "N/A"; with no category or no year selected the
\* average satisfaction is "N/A" as well.
C29_FilterIsConjunctionAndEmptyIsZero ==
    dash.calls > 0 =>
        /\ filtered_sales(dash.prepared.sales_data, dash.selected.categories,
                          dash.selected.countries, dash.selected.years) = SelectedSales
        /\ Updated => dash.outputs.total_sales
                         = format_money(sum(SelectedSales, "total_amount"))
        /\ {} \in {dash.selected.categories, dash.selected.countries, dash.selected.years} =>
              /\ ~dash.raised
              /\ dash.outputs.total_sales = <<"$", 0, ".", 0, 0>>
              /\ dash.outputs.avg_profit_margin = <<"N/A">>
              /\ dash.outputs.sales_trend = {}
        /\ {} \in {dash.selected.categories, dash.selected.years} =>
              dash.outputs.avg_satisfaction = <<"N/A">>

\* the callback has returned "$0.00" and "N/A" for two sales rows of 2022 and
\* 2023, with every category and country and no year selected
C29_Witness ==
    /\ Updated
    /\ NRows(dash.prepared.sales_data) = 2
    /\ Column(dash.prepared.sales_data, "year") = <<2022, 2023>>
    /\ dash.selected = [categories |-> Categories, countries |-> Countries, years |-> {}]
    /\ dash.outputs.total_sales = <<"$", 0, ".", 0, 0>>
    /\ dash.outputs.avg_profit_margin = <<"N/A">>
    /\ dash.outputs.avg_satisfaction = <<"N/A">>

\* the deployment directory a run makes of the README.md readme
Deployed(readme) ==
    {AssetsDir, <<<<"index.html">>, "index_html">>, <<<<"README.md">>, readme>>,
     <<<<"project_structure.md">>, "project_structure">>}

====
